---- MODULE Spec2Model ----
(***************************************************************************)
(* Model of ArbitrageAnalyzer (src/phase3_advanced_arbitrage_final.py):    *)
(* the quote book kept by update_price_data and the scans that read it.   *)
(*                                                                         *)
(* Numbers.  A number is an exact rational [n, d] in lowest terms with     *)
(* d > 0; the one non-finite float the scans can store, +inf, is the       *)
(* value Infinity (d = 0).  The program computes in binary floating        *)
(* point.  Where a scan only compares or reports a quantity, rounding      *)
(* moves it by a unit in the last place and the model computes exactly.    *)
(* find_statistical_arbitrage is different: it divides by a standard       *)
(* deviation and what it does depends on that float being exactly 0.0, so  *)
(* its numpy arithmetic is rounded after every operation, to nearest,      *)
(* ties to even, in a binary format of MantissaBits significant bits       *)
(* (float64 has 53) with no exponent limits.                               *)
(*                                                                         *)
(* Strings.  An instrument name is the sequence of its dash-separated      *)
(* tokens: 'BTC-USDT' is <<"BTC", "USDT">>.  endswith, replace and the     *)
(* f-strings of the scans are computed on the tokens.                      *)
(*                                                                         *)
(* Timestamps (datetime.now()) are left out: no scan reads them.           *)
(***************************************************************************)
EXTENDS Integers, Sequences, FiniteSets, TLC

VARIABLES
    price_data,              \* self.price_data: exchange -> list of ExchangePrice, in dict insertion order
    price_history,           \* self.price_history: exchange -> symbol -> list of entries
    trading_fees,            \* self.trading_fees: exchange -> fee rate
    min_profit_threshold,    \* self.min_profit_threshold: kind -> ratio
    arbitrage_opportunities, \* self.arbitrage_opportunities
    last,                    \* the most recent call and its arguments
    result,                  \* what that call returned (a list; None is the empty list)
    log,                     \* every update_price_data call so far, in order
    issued,                  \* the (profit_percent, grade) pairs returned by generate_arbitrage_signal
    threads,                 \* the calls in progress, statement by statement, when calls run in threads
    telegram_bot,            \* the TelegramBotHandler: bot, last_update_id, is_running, system_running
    main,                    \* main(): its position, signal_count, the polling task, the alerts sent
    telegram,                \* the Telegram server: the updates it holds for the bot
    trading_bot,             \* the PerfectTradingBot of phase1_perfect_fixed: its counters and flags
    generator                \* the PerfectSignalGenerator of phase1_perfect_leverage_fixed: its counters

vars == <<price_data, price_history, trading_fees, min_profit_threshold,
          arbitrage_opportunities, last, result, log, issued, threads,
          telegram_bot, main, telegram, trading_bot, generator>>

-----------------------------------------------------------------------------
(* Exact rational arithmetic                                               *)

RECURSIVE Gcd(_, _)
Gcd(a, b) == IF b = 0 THEN a ELSE Gcd(b, a % b)

Abs(x) == IF x < 0 THEN -x ELSE x

Frac(n, d) ==
    LET s == IF d < 0 THEN -1 ELSE 1
        g == Gcd(Abs(n), Abs(d))
    IN  [n |-> (s * n) \div g, d |-> (s * d) \div g]

R(k) == [n |-> k, d |-> 1]

Infinity == [n |-> 1, d |-> 0]

IsFinite(a) == a.d # 0

RNeg(a) == [n |-> -a.n, d |-> a.d]

RAbs(a) == [n |-> Abs(a.n), d |-> a.d]

RAdd(a, b) ==
    LET g == Gcd(a.d, b.d)
    IN  Frac(a.n * (b.d \div g) + b.n * (a.d \div g), (a.d \div g) * b.d)

RSub(a, b) == RAdd(a, RNeg(b))

RMul(a, b) ==
    LET g1 == Gcd(Abs(a.n), b.d)
        g2 == Gcd(Abs(b.n), a.d)
    IN  IF a.n = 0 \/ b.n = 0 THEN R(0)
        ELSE [n |-> (a.n \div g1) * (b.n \div g2), d |-> (a.d \div g2) * (b.d \div g1)]

\* a / b for b # 0
RDiv(a, b) == RMul(a, IF b.n < 0 THEN [n |-> -b.d, d |-> -b.n] ELSE [n |-> b.d, d |-> b.n])

\* n1/d1 against n2/d2 (d1, d2 > 0) by continued fractions: -1, 0 or 1
RECURSIVE Cmp(_, _, _, _)
Cmp(n1, d1, n2, d2) ==
    LET q1 == n1 \div d1
        q2 == n2 \div d2
        r1 == n1 % d1
        r2 == n2 % d2
    IN  IF q1 # q2 THEN (IF q1 < q2 THEN -1 ELSE 1)
        ELSE IF r1 = 0 /\ r2 = 0 THEN 0
        ELSE IF r1 = 0 THEN -1
        ELSE IF r2 = 0 THEN 1
        ELSE Cmp(d2, r2, d1, r1)

RCmp(a, b) ==
    IF ~IsFinite(a) THEN (IF ~IsFinite(b) THEN 0 ELSE 1)
    ELSE IF ~IsFinite(b) THEN -1
    ELSE Cmp(a.n, a.d, b.n, b.d)

RLt(a, b) == RCmp(a, b) = -1
RLe(a, b) == RCmp(a, b) # 1
RGt(a, b) == RCmp(a, b) = 1
RGe(a, b) == RCmp(a, b) # -1

\* a variant of min that returns the larger argument
RMinReturnsLarger(a, b) == IF RLe(a, b) THEN b ELSE a

RMin(a, b) == IF RLe(a, b) THEN a ELSE b

-----------------------------------------------------------------------------
(* Python containers                                                       *)

\* dict: a function on its keys
EmptyDict == [k \in {} |-> 0]

DictPut(f, k, v) == [x \in (DOMAIN f) \cup {k} |-> IF x = k THEN v ELSE f[x]]

\* the inner dicts of price_data keep their insertion order, which
\* find_triangular_arbitrage iterates: a list of ExchangePrice, one per symbol
Has(prices, symbol) == \E i \in 1..Len(prices) : prices[i].symbol = symbol

Get(prices, symbol) == prices[CHOOSE i \in 1..Len(prices) : prices[i].symbol = symbol]

Put(prices, symbol, q) ==
    IF Has(prices, symbol)
    THEN [i \in 1..Len(prices) |-> IF prices[i].symbol = symbol THEN q ELSE prices[i]]
    ELSE Append(prices, q)

\* list[-k:]
LastN(s, k) == IF Len(s) <= k THEN s ELSE SubSeq(s, Len(s) - k + 1, Len(s))

-----------------------------------------------------------------------------
(* ArbitrageAnalyzer.__init__                                              *)

exchanges == <<"OKX", "Binance", "Bybit", "Upbit", "Bithumb", "Coinone">>

InitTradingFees ==
    [e \in {"OKX", "Binance", "Bybit", "Upbit", "Bithumb", "Coinone"} |->
        CASE e = "Upbit"   -> Frac(5, 10000)
          [] e = "Bithumb" -> Frac(25, 10000)
          [] e = "Coinone" -> Frac(2, 1000)
          [] OTHER         -> Frac(1, 1000)]

InitMinProfitThreshold ==
    [cross_exchange |-> Frac(5, 1000), triangular |-> Frac(2, 1000),
     statistical |-> Frac(3, 1000), future_spot |-> Frac(1, 1000)]

\* len(history) > 1000 and history[-1000:]: the history capacity, scaled down
HistoryCapacity == 4

ExchangePrice(exchange, symbol, bid, ask, volume) ==
    [exchange |-> exchange, symbol |-> symbol, bid_price |-> bid,
     ask_price |-> ask, volume |-> volume]

-----------------------------------------------------------------------------
(* update_price_data                                                       *)

\* a variant that keeps the first quote of a key instead of overwriting it
StoreLatestKeepFirst(pd, exchange, symbol, bid, ask, volume) ==
    LET inner == IF exchange \in DOMAIN pd THEN pd[exchange] ELSE <<>>
    IN  IF Has(inner, symbol) THEN pd
        ELSE DictPut(pd, exchange,
                     Put(inner, symbol, ExchangePrice(exchange, symbol, bid, ask, volume)))

\* lines 92-97
StoreLatest(pd, exchange, symbol, bid, ask, volume) ==
    LET inner == IF exchange \in DOMAIN pd THEN pd[exchange] ELSE <<>>
    IN  DictPut(pd, exchange,
                Put(inner, symbol, ExchangePrice(exchange, symbol, bid, ask, volume)))

HistoryEntry(bid, ask, volume) ==
    [bid |-> bid, ask |-> ask, mid |-> RDiv(RAdd(bid, ask), R(2)),
     spread |-> RSub(ask, bid), volume |-> volume]

\* a variant of the truncation that keeps the oldest entries: history[:capacity]
TruncateKeepOldest(h) == IF Len(h) > HistoryCapacity THEN SubSeq(h, 1, HistoryCapacity) ELSE h

\* lines 106-107
Truncate(h) == IF Len(h) > HistoryCapacity THEN LastN(h, HistoryCapacity) ELSE h

\* lines 98-107
AppendHistory(ph, exchange, symbol, bid, ask, volume) ==
    LET inner == IF exchange \in DOMAIN ph THEN ph[exchange] ELSE EmptyDict
        old   == IF symbol \in DOMAIN inner THEN inner[symbol] ELSE <<>>
    IN  DictPut(ph, exchange,
                DictPut(inner, symbol, Truncate(Append(old, HistoryEntry(bid, ask, volume)))))

\* a bid or ask that is not a number: None, or a string taken from a feed
NoneValue == [none |-> TRUE]

IsNumber(x) == "n" \in DOMAIN x

\* lines 98-101 alone: the dict of the exchange and the list of the symbol exist
CreateHistoryList(ph, exchange, symbol) ==
    LET inner == IF exchange \in DOMAIN ph THEN ph[exchange] ELSE EmptyDict
    IN  DictPut(ph, exchange,
                DictPut(inner, symbol, IF symbol \in DOMAIN inner THEN inner[symbol] ELSE <<>>))

\* lines 89-109; no statement of the body raises for numeric arguments.
\*   For a bid or ask that is not a number, (bid + ask) / 2 of line 104 raises
\*   TypeError after lines 92-101 have run; line 108 catches it.
update_price_data(exchange, symbol, bid, ask, volume) ==
    /\ price_data' = StoreLatest(price_data, exchange, symbol, bid, ask, volume)
    /\ price_history' =
           IF IsNumber(bid) /\ IsNumber(ask)
           THEN AppendHistory(price_history, exchange, symbol, bid, ask, volume)
           ELSE CreateHistoryList(price_history, exchange, symbol)
    /\ last' = [op |-> "update_price_data", exchange |-> exchange, symbol |-> symbol,
                bid |-> bid, ask |-> ask, volume |-> volume]
    /\ result' = <<>>
    /\ log' = Append(log, [exchange |-> exchange, symbol |-> symbol,
                           bid |-> bid, ask |-> ask, volume |-> volume])
    /\ UNCHANGED <<trading_fees, min_profit_threshold, arbitrage_opportunities, issued, threads,
                   telegram_bot, main, telegram, trading_bot, generator>>

\* the threads that call update_price_data, and the one that scans
Threads == {"T1", "T2"}

Idle == [pc |-> "idle"]

NoCalls == [t \in Threads \cup {"scan"} |-> Idle]

-----------------------------------------------------------------------------
(* The programs around the analyzer, as they are constructed               *)

\* TelegramBotHandler.__init__: bot is None (FALSE until the Bot object
\* exists), no update seen, not polling, the system active.  polling and
\* updates are the position of start_polling and what is left of its batch; connected,
\* request and handled record what initialize and the polling task did:
\* whether get_me succeeded, the latest get_updates request, the updates
\* handled and their handlers.
TelegramBotHandler ==
    [bot |-> FALSE, last_update_id |-> 0, is_running |-> FALSE, system_running |-> TRUE,
     polling |-> "not_started", updates |-> <<>>,
     connected |-> FALSE, request |-> <<>>, handled |-> <<>>]

\* main() before its first await: signal_count is set to 0 before the loop;
\* iterations, alerts and events record what the loop did
MainStart ==
    [pc |-> "initialize", signal_count |-> 0, iterations |-> 0, alerts |-> <<>>,
     events |-> <<>>]

\* PerfectTradingBot.__init__ of phase1_perfect_fixed (lines 38-72);
\* advanced_mode is ADVANCED_MODE unless _initialize_perfect_system failed.
\* cycles counts the calls made on the bot.
PerfectTradingBot(advanced_mode) ==
    [advanced_mode |-> advanced_mode, shutdown_flag |-> FALSE, signal_count |-> 0,
     strong_signal_count |-> 0, ultra_strong_signal_count |-> 0, mega_signal_count |-> 0,
     legendary_signal_count |-> 0, godlike_signal_count |-> 0,
     trading_opportunities |-> 0, successful_trades |-> 0, win_rate |-> R(0), cycles |-> 0]

\* PerfectSignalGenerator.__init__ of phase1_perfect_leverage_fixed
PerfectSignalGenerator ==
    [signal_count |-> 0, godlike_count |-> 0, legendary_count |-> 0, mega_count |-> 0,
     ultra_count |-> 0, strong_count |-> 0]

OtherPrograms ==
    /\ telegram_bot = TelegramBotHandler
    /\ main = MainStart
    /\ telegram = <<>>
    /\ trading_bot = PerfectTradingBot(TRUE)
    /\ generator = PerfectSignalGenerator

-----------------------------------------------------------------------------
(* State after ArbitrageAnalyzer()                                         *)

Init ==
    /\ price_data = EmptyDict
    /\ price_history = EmptyDict
    /\ trading_fees = InitTradingFees
    /\ min_profit_threshold = InitMinProfitThreshold
    /\ arbitrage_opportunities = <<>>
    /\ last = [op |-> "__init__"]
    /\ result = <<>>
    /\ log = <<>>
    /\ issued = {}
    /\ threads = NoCalls
    /\ OtherPrograms

-----------------------------------------------------------------------------
(* Instruments and sources of the model                                    *)

BTC_USDT == <<"BTC", "USDT">>
ETH_USDT == <<"ETH", "USDT">>
BTC_USD  == <<"BTC", "USD">>

\* [bid, ask, volume] of a call
Q(b, a, v) == [bid |-> b, ask |-> a, volume |-> v]

\* the quote the spec calls well-formed: bid > 0, ask >= bid, volume >= 0
ValidQuote(bid, ask, volume) ==
    /\ RGt(bid, R(0))
    /\ RGe(ask, bid)
    /\ RGe(volume, R(0))

-----------------------------------------------------------------------------
(* What one pass of a scan loop does: nothing, append one opportunity, or  *)
(* raise.  The try/except of each scan ends the scan at the first raise    *)
(* and returns the opportunities appended so far.                          *)

Skip == [raised |-> FALSE, emitted |-> <<>>]

Raise == [raised |-> TRUE, emitted |-> <<>>]

Emit(opportunity) == [raised |-> FALSE, emitted |-> <<opportunity>>]

RECURSIVE Collect(_, _)
Collect(passes, k) ==
    IF k > Len(passes) \/ passes[k].raised THEN <<>>
    ELSE passes[k].emitted \o Collect(passes, k + 1)

ArbitrageOpportunity(type, symbol, buy_price, sell_price, buy_exchange, sell_exchange, spread, profit_percent, volume, confidence) ==
    [type |-> type, symbol |-> symbol, buy_price |-> buy_price, sell_price |-> sell_price,
     buy_exchange |-> buy_exchange, sell_exchange |-> sell_exchange, spread |-> spread,
     profit_percent |-> profit_percent, volume |-> volume, confidence |-> confidence]

-----------------------------------------------------------------------------
(* find_cross_exchange_arbitrage                                           *)

\* self.trading_fees.get(exchange, 0.001)
FeeOf(fees, exchange) == IF exchange \in DOMAIN fees THEN fees[exchange] ELSE Frac(1, 1000)

\* lines 114-117: the keys of exchange_prices, in the order of self.exchanges
ExchangePrices(pd, symbol) ==
    SelectSeq(exchanges, LAMBDA e : e \in DOMAIN pd /\ Has(pd[e], symbol))

\* lines 126 and 128
NetBuyPrice(buy_price, fee_rate) == RAdd(buy_price, RMul(buy_price, fee_rate))

\* lines 127 and 129
NetSellPrice(sell_price, fee_rate) == RSub(sell_price, RMul(sell_price, fee_rate))

\* lines 131-132: spread / net_buy_price * 100
CrossProfitPercent(net_sell_price, net_buy_price) ==
    RMul(RDiv(RSub(net_sell_price, net_buy_price), net_buy_price), R(100))

\* a variant that compares the percentage with the threshold ratio itself
CrossMeetsThresholdUnscaled(profit_percent, threshold) == RGe(profit_percent, threshold)

\* line 133
CrossMeetsThreshold(profit_percent, threshold) ==
    RGe(profit_percent, RMul(threshold, R(100)))

\* lines 122-143: one pass of the inner loop
CrossPair(pd, fees, thr, symbol, buy_exchange, sell_exchange) ==
    LET buy_info       == Get(pd[buy_exchange], symbol)
        sell_info      == Get(pd[sell_exchange], symbol)
        buy_price      == buy_info.ask_price
        sell_price     == sell_info.bid_price
        net_buy_price  == NetBuyPrice(buy_price, FeeOf(fees, buy_exchange))
        net_sell_price == NetSellPrice(sell_price, FeeOf(fees, sell_exchange))
        spread         == RSub(net_sell_price, net_buy_price)
        profit_percent == CrossProfitPercent(net_sell_price, net_buy_price)
    IN  IF buy_exchange = sell_exchange THEN Skip
        ELSE IF ~RGt(net_sell_price, net_buy_price) THEN Skip
        ELSE IF net_buy_price.n = 0 THEN Raise   \* ZeroDivisionError
        ELSE IF CrossMeetsThreshold(profit_percent, thr.cross_exchange)
             THEN Emit(ArbitrageOpportunity("cross_exchange", symbol, buy_price, sell_price,
                           buy_exchange, sell_exchange, spread, profit_percent,
                           RMin(buy_info.volume, sell_info.volume),
                           RMin(Frac(9, 10), RDiv(profit_percent, R(2)))))
             ELSE Skip

\* lines 111-146
CrossExchangeArbitrage(pd, fees, thr, symbol) ==
    LET eps == ExchangePrices(pd, symbol)
        n   == Len(eps)
        passes == [k \in 1..(n * n) |->
                      CrossPair(pd, fees, thr, symbol,
                                eps[((k - 1) \div n) + 1], eps[((k - 1) % n) + 1])]
    IN  IF n < 2 THEN <<>> ELSE Collect(passes, 1)

find_cross_exchange_arbitrage(symbol) ==
    /\ result' = CrossExchangeArbitrage(price_data, trading_fees, min_profit_threshold, symbol)
    /\ last' = [op |-> "find_cross_exchange_arbitrage", symbol |-> symbol]
    /\ UNCHANGED <<price_data, price_history, trading_fees, min_profit_threshold,
                   arbitrage_opportunities, log, issued, threads,
                   telegram_bot, main, telegram, trading_bot, generator>>

-----------------------------------------------------------------------------
(* find_future_spot_arbitrage                                              *)

\* symbol.replace('-USDT', '-USDT-SWAP')
RECURSIVE ReplaceWithSwap(_, _)
ReplaceWithSwap(symbol, i) ==
    IF i > Len(symbol) THEN <<>>
    ELSE (IF i >= 2 /\ symbol[i] = "USDT" THEN <<"USDT", "SWAP">> ELSE <<symbol[i]>>)
         \o ReplaceWithSwap(symbol, i + 1)

\* lines 256-281
FutureSpotPass(pd, thr, symbol) ==
    LET spot_symbol   == symbol
        future_symbol == ReplaceWithSwap(symbol, 1)
        exchange      == "OKX"
    IN  IF ~(exchange \in DOMAIN pd /\ Has(pd[exchange], spot_symbol)
                                    /\ Has(pd[exchange], future_symbol))
        THEN Skip
        ELSE
        LET spot_price   == Get(pd[exchange], spot_symbol)
            future_price == Get(pd[exchange], future_symbol)
            spread       == RSub(future_price.bid_price, spot_price.ask_price)
            profit_percent == RMul(RDiv(RAbs(spread), spot_price.ask_price), R(100))
            up           == RGt(spread, R(0))
            buy_price    == IF up THEN spot_price.ask_price ELSE future_price.ask_price
            sell_price   == IF up THEN future_price.bid_price ELSE spot_price.bid_price
        IN  IF ~RGt(RAbs(spread), RMul(spot_price.ask_price, thr.future_spot)) THEN Skip
            ELSE IF spot_price.ask_price.n = 0 THEN Raise   \* ZeroDivisionError
            ELSE Emit(ArbitrageOpportunity("future_spot", <<spot_symbol, future_symbol>>,
                          buy_price, sell_price, exchange, exchange, RAbs(spread),
                          profit_percent, RMin(spot_price.volume, future_price.volume),
                          Frac(85, 100)))

\* lines 253-284
FutureSpotArbitrage(pd, thr, symbol) == Collect(<<FutureSpotPass(pd, thr, symbol)>>, 1)


-----------------------------------------------------------------------------
(* find_triangular_arbitrage                                               *)

\* symbol.endswith(f'-{base_currency}')
EndsWithBase(symbol, base_currency) ==
    Len(symbol) >= 2 /\ symbol[Len(symbol)] = base_currency

\* symbol.replace(f'-{base_currency}', '')
RECURSIVE RemoveBase(_, _, _)
RemoveBase(symbol, base_currency, i) ==
    IF i > Len(symbol) THEN <<>>
    ELSE (IF i >= 2 /\ symbol[i] = base_currency THEN <<>> ELSE <<symbol[i]>>)
         \o RemoveBase(symbol, base_currency, i + 1)

\* lines 158-198: one pass of the inner loop
TriangularPass(prices, thr, base_currency, symbol1, symbol2) ==
    LET exchange      == "OKX"
        currency1     == RemoveBase(symbol1, base_currency, 1)
        currency2     == RemoveBase(symbol2, base_currency, 1)
        cross_symbol1 == currency1 \o currency2
        cross_symbol2 == currency2 \o currency1
    IN  IF ~EndsWithBase(symbol1, base_currency) THEN Skip
        ELSE IF ~EndsWithBase(symbol2, base_currency) THEN Skip
        ELSE IF currency1 = currency2 THEN Skip
        ELSE IF ~Has(prices, cross_symbol1) THEN Skip   \* direct = False does nothing
        ELSE
        LET price1      == Get(prices, symbol1)
            price2      == Get(prices, symbol2)
            cross_price == Get(prices, cross_symbol1)
            theoretical_cross == RDiv(price1.bid_price, price2.ask_price)
            actual_cross      == cross_price.ask_price
            profit_percent    ==
                RMul(RDiv(RSub(theoretical_cross, actual_cross), actual_cross), R(100))
        IN  IF price2.ask_price.n = 0 THEN Raise   \* ZeroDivisionError
            ELSE IF ~RGt(theoretical_cross, RMul(actual_cross, Frac(1001, 1000))) THEN Skip
            ELSE IF actual_cross.n = 0 THEN Raise   \* ZeroDivisionError
            ELSE IF RGe(profit_percent, RMul(thr.triangular, R(100)))
                 THEN Emit(ArbitrageOpportunity("triangular",
                               currency1 \o currency2 \o <<base_currency>>,
                               actual_cross, theoretical_cross, exchange, exchange,
                               RSub(theoretical_cross, actual_cross), profit_percent,
                               RMin(RMin(price1.volume, price2.volume), cross_price.volume),
                               Frac(8, 10)))
                 ELSE Skip

\* a variant that reads the quotes of Binance when Binance has any
TriangularArbitrageOtherSource(pd, thr, base_currency) ==
    IF "OKX" \notin DOMAIN pd THEN <<>>
    ELSE Collect([k \in 1..(Len(pd[IF "Binance" \in DOMAIN pd THEN "Binance" ELSE "OKX"])
                            * Len(pd[IF "Binance" \in DOMAIN pd THEN "Binance" ELSE "OKX"])) |->
                     TriangularPass(pd[IF "Binance" \in DOMAIN pd THEN "Binance" ELSE "OKX"],
                         thr, base_currency,
                         pd[IF "Binance" \in DOMAIN pd THEN "Binance" ELSE "OKX"]
                           [((k - 1) \div Len(pd[IF "Binance" \in DOMAIN pd THEN "Binance" ELSE "OKX"])) + 1].symbol,
                         pd[IF "Binance" \in DOMAIN pd THEN "Binance" ELSE "OKX"]
                           [((k - 1) % Len(pd[IF "Binance" \in DOMAIN pd THEN "Binance" ELSE "OKX"])) + 1].symbol)], 1)

\* lines 148-201
TriangularArbitrage(pd, thr, base_currency) ==
    IF "OKX" \notin DOMAIN pd THEN <<>>
    ELSE
    LET prices == pd["OKX"]
        n      == Len(prices)
        passes == [k \in 1..(n * n) |->
                      TriangularPass(prices, thr, base_currency,
                                     prices[((k - 1) \div n) + 1].symbol,
                                     prices[((k - 1) % n) + 1].symbol)]
    IN  Collect(passes, 1)

-----------------------------------------------------------------------------
(* find_statistical_arbitrage                                              *)

\* hist[-50:] and len(hist) > 50: the window, scaled down
StatWindow == 3

\* significant bits of the floating-point format, scaled down from 53
MantissaBits == 4

RECURSIVE Pow2(_)
Pow2(k) == IF k = 0 THEN 1 ELSE 2 * Pow2(k - 1)

\* 2^k for any integer k
Scale(k) == IF k >= 0 THEN R(Pow2(k)) ELSE Frac(1, Pow2(-k))

\* the exponent k of y > 0: 2^(MantissaBits-1) <= y / 2^k < 2^MantissaBits
RECURSIVE Exponent(_, _)
Exponent(y, k) ==
    IF RLt(y, R(Pow2(MantissaBits - 1))) THEN Exponent(RMul(y, R(2)), k - 1)
    ELSE IF RGe(y, R(Pow2(MantissaBits))) THEN Exponent(RDiv(y, R(2)), k + 1)
    ELSE k

\* the integer nearest to y >= 0, a tie going to the even one
RoundHalfEven(y) ==
    LET q    == y.n \div y.d
        rem2 == 2 * (y.n % y.d)
    IN  IF rem2 > y.d \/ (rem2 = y.d /\ q % 2 = 1) THEN q + 1 ELSE q

\* the float nearest to x: what every float operation returns for the exact result x
Fl(x) ==
    IF x.n = 0 \/ ~IsFinite(x) THEN x
    ELSE LET k == Exponent(RAbs(x), 0)
             m == RoundHalfEven(RDiv(RAbs(x), Scale(k)))
         IN  RMul(R(IF x.n < 0 THEN -m ELSE m), Scale(k))

\* np.add.reduce: for fewer than 8 elements, a running float sum from 0.0
RECURSIVE FSum(_, _, _)
FSum(xs, k, acc) ==
    IF k > Len(xs) THEN acc ELSE FSum(xs, k + 1, Fl(RAdd(acc, xs[k])))

\* np.mean: the float sum divided by the count
Mean(xs) == Fl(RDiv(FSum(xs, 1, R(0)), R(Len(xs))))

\* np.std before its square root: the mean of the squared deviations from
\* the float mean.  The root of a float is 0.0 exactly when the float is.
Variance(xs) ==
    LET m == Mean(xs)
    IN  Mean([i \in 1..Len(xs) |->
                 LET x == Fl(RSub(xs[i], m)) IN Fl(RMul(x, x))])

\* the square root of a rational, kept as its radicand
Root(x) == [sqrt |-> x]

\* lines 229-232: abs(z_score) > 2, decided as
\* (current_ratio - mean_ratio)^2 > 4 * std_ratio^2.
\* A zero std_ratio makes z_score inf or nan and profit_percent nan (inf * 0.0);
\* numpy raises nothing and no comparison with nan is true, so nothing passes.
ZScoreAboveTwo(dev, var_ratio) ==
    var_ratio.n # 0 /\ RGt(RMul(dev, dev), RMul(R(4), var_ratio))

\* lines 229-248: the test of the z-score and the opportunity appended.
\*   abs(z_score) * std_ratio is abs(current_ratio - mean_ratio); divided by a
\*   zero current_ratio it is numpy's inf.
StatisticalSignal(price1, price2, thr, exchange, symbol1, symbol2, current_ratio, mean_ratio, var_ratio) ==
    LET dev         == Fl(RSub(current_ratio, mean_ratio))
        z_squared   == RDiv(RMul(dev, dev), var_ratio)
        \* abs(z_score) * std_ratio / current_ratio * 100
        profit_percent ==
            IF current_ratio.n = 0 THEN Infinity
            ELSE RMul(RDiv(RAbs(dev), current_ratio), R(100))
        up          == dev.n > 0
        buy_symbol  == IF up THEN symbol2 ELSE symbol1
        sell_symbol == IF up THEN symbol1 ELSE symbol2
        buy_price   == IF up THEN price2.ask_price ELSE price1.ask_price
        sell_price  == IF up THEN price1.bid_price ELSE price2.bid_price
        \* min(0.9, abs(z_score) / 3)
        confidence  == IF RGe(z_squared, Frac(729, 100)) THEN Frac(9, 10)
                       ELSE Root(RDiv(z_squared, R(9)))
    IN  IF ~ZScoreAboveTwo(dev, var_ratio) THEN Skip
        ELSE IF ~RGe(profit_percent, RMul(thr.statistical, R(100))) THEN Skip
        ELSE Emit(ArbitrageOpportunity("statistical", <<buy_symbol, sell_symbol>>,
                      buy_price, sell_price, exchange, exchange,
                      RAbs(RSub(sell_price, buy_price)), profit_percent,
                      RMin(price1.volume, price2.volume), confidence))

\* lines 211-248: one pass of the loop over self.exchanges.
\*   ratio, mean_ratio, std_ratio are numpy floats: a zero mid in hist2 makes
\*   them nan and the pass appends nothing.
\*   current_ratio is a Python float division: it raises for a zero ask.
StatisticalPass(pd, ph, thr, exchange, symbol1, symbol2) ==
    IF ~(/\ exchange \in DOMAIN pd
         /\ Has(pd[exchange], symbol1)
         /\ Has(pd[exchange], symbol2)
         /\ exchange \in DOMAIN ph
         /\ symbol1 \in DOMAIN ph[exchange]
         /\ symbol2 \in DOMAIN ph[exchange]
         /\ Len(ph[exchange][symbol1]) > StatWindow
         /\ Len(ph[exchange][symbol2]) > StatWindow)
    THEN Skip
    ELSE
    LET price1 == Get(pd[exchange], symbol1)
        price2 == Get(pd[exchange], symbol2)
        hist1  == LastN(ph[exchange][symbol1], StatWindow)
        hist2  == LastN(ph[exchange][symbol2], StatWindow)
    IN  IF price2.ask_price.n = 0 THEN Raise   \* ZeroDivisionError
        ELSE IF \E i \in 1..StatWindow : hist2[i].mid.n = 0 THEN Skip
        ELSE LET ratio == [i \in 1..StatWindow |-> Fl(RDiv(hist1[i].mid, hist2[i].mid))]
             IN  StatisticalSignal(price1, price2, thr, exchange, symbol1, symbol2,
                                   Fl(RDiv(price1.bid_price, price2.ask_price)),
                                   Mean(ratio), Variance(ratio))

\* lines 203-251: symbols = ['BTC-USDT', 'ETH-USDT'] gives the one pair
StatisticalArbitrage(pd, ph, thr) ==
    Collect([k \in 1..Len(exchanges) |->
                StatisticalPass(pd, ph, thr, exchanges[k],
                                <<"BTC", "USDT">>, <<"ETH", "USDT">>)], 1)

find_statistical_arbitrage ==
    /\ result' = StatisticalArbitrage(price_data, price_history, min_profit_threshold)
    /\ last' = [op |-> "find_statistical_arbitrage"]
    /\ UNCHANGED <<price_data, price_history, trading_fees, min_profit_threshold,
                   arbitrage_opportunities, log, issued, threads,
                   telegram_bot, main, telegram, trading_bot, generator>>


-----------------------------------------------------------------------------
(* generate_arbitrage_signal                                               *)

\* line 289
ScanSymbols ==
    << <<"BTC", "USDT">>, <<"ETH", "USDT">>, <<"BNB", "USDT">>,
       <<"ADA", "USDT">>, <<"SOL", "USDT">>, <<"XRP", "USDT">> >>

\* lines 288-296
RECURSIVE PerSymbol(_, _, _, _)
PerSymbol(pd, fees, thr, k) ==
    IF k > Len(ScanSymbols) THEN <<>>
    ELSE CrossExchangeArbitrage(pd, fees, thr, ScanSymbols[k])
         \o FutureSpotArbitrage(pd, thr, ScanSymbols[k])
         \o PerSymbol(pd, fees, thr, k + 1)

AllOpportunities(pd, ph, fees, thr) ==
    PerSymbol(pd, fees, thr, 1)
    \o TriangularArbitrage(pd, thr, "USDT")
    \o StatisticalArbitrage(pd, ph, thr)

\* a variant of max that keeps the last of several maxima
RECURSIVE MaxFromLast(_, _, _)
MaxFromLast(ops, k, best) ==
    IF k > Len(ops) THEN best
    ELSE MaxFromLast(ops, k + 1,
                     IF RGe(ops[k].profit_percent, best.profit_percent) THEN ops[k] ELSE best)

\* max(all_opportunities, key=lambda x: x.profit_percent): the first maximum
RECURSIVE MaxFrom(_, _, _)
MaxFrom(ops, k, best) ==
    IF k > Len(ops) THEN best
    ELSE MaxFrom(ops, k + 1,
                 IF RGt(ops[k].profit_percent, best.profit_percent) THEN ops[k] ELSE best)

BestOpportunity(ops) == MaxFrom(ops, 2, ops[1])

\* a variant of the grade table whose boundaries fall in the lower grade
GradeBoundaryExclusive(profit) ==
    IF RGt(profit, R(10)) THEN "ARBITRAGE_GODLIKE"
    ELSE IF RGt(profit, R(5)) THEN "ARBITRAGE_LEGENDARY"
    ELSE IF RGt(profit, R(1)) THEN "ARBITRAGE_MEGA"
    ELSE IF RGt(profit, Frac(1, 2)) THEN "ARBITRAGE_ULTRA"
    ELSE "ARBITRAGE_NORMAL"

\* a variant of the grade table with the 5.0 and 1.0 rows exchanged
GradeRowsExchanged(profit) ==
    IF RGe(profit, R(10)) THEN "ARBITRAGE_GODLIKE"
    ELSE IF RGe(profit, R(5)) THEN "ARBITRAGE_MEGA"
    ELSE IF RGe(profit, R(1)) THEN "ARBITRAGE_LEGENDARY"
    ELSE IF RGe(profit, Frac(1, 2)) THEN "ARBITRAGE_ULTRA"
    ELSE "ARBITRAGE_NORMAL"

\* lines 304-313
Grade(profit) ==
    IF RGe(profit, R(10)) THEN "ARBITRAGE_GODLIKE"
    ELSE IF RGe(profit, R(5)) THEN "ARBITRAGE_LEGENDARY"
    ELSE IF RGe(profit, R(1)) THEN "ARBITRAGE_MEGA"
    ELSE IF RGe(profit, Frac(1, 2)) THEN "ARBITRAGE_ULTRA"
    ELSE "ARBITRAGE_NORMAL"

CountType(ops, type) == Len(SelectSeq(ops, LAMBDA op : op.type = type))

\* lines 317-335: the returned dict
Signal(ops, best) ==
    [grade |-> Grade(best.profit_percent), type |-> best.type, symbol |-> best.symbol,
     profit_percent |-> best.profit_percent, spread |-> best.spread,
     buy_exchange |-> best.buy_exchange, sell_exchange |-> best.sell_exchange,
     buy_price |-> best.buy_price, sell_price |-> best.sell_price,
     volume |-> best.volume, confidence |-> best.confidence,
     total_opportunities |-> Len(ops),
     opportunities_by_type |->
        [cross_exchange |-> CountType(ops, "cross_exchange"),
         triangular     |-> CountType(ops, "triangular"),
         statistical    |-> CountType(ops, "statistical"),
         future_spot    |-> CountType(ops, "future_spot")]]

\* lines 315-335: the best opportunity is appended and the dict returned
ReturnSignal(best, signal) ==
    /\ arbitrage_opportunities' = Append(arbitrage_opportunities, best)
    /\ result' = <<signal>>
    /\ issued' = issued \cup {[profit_percent |-> signal.profit_percent, grade |-> signal.grade]}

\* lines 298-335
SignalFrom(ops) ==
    IF ops = <<>>
    THEN /\ result' = <<>>
         /\ UNCHANGED <<arbitrage_opportunities, issued>>
    ELSE ReturnSignal(BestOpportunity(ops), Signal(ops, BestOpportunity(ops)))

\* lines 286-338
generate_arbitrage_signal ==
    /\ last' = [op |-> "generate_arbitrage_signal"]
    /\ SignalFrom(AllOpportunities(price_data, price_history, trading_fees, min_profit_threshold))
    /\ UNCHANGED <<price_data, price_history, trading_fees, min_profit_threshold, log, threads,
                   telegram_bot, main, telegram, trading_bot, generator>>

-----------------------------------------------------------------------------
(* Configuration: the fee table and the thresholds are attributes the      *)
(* caller sets on the analyzer after construction                          *)

Configure(fees, thr) ==
    /\ trading_fees' = fees
    /\ min_profit_threshold' = thr
    /\ last' = [op |-> "configure"]
    /\ result' = <<>>
    /\ UNCHANGED <<price_data, price_history, arbitrage_opportunities, log, issued, threads,
                   telegram_bot, main, telegram, trading_bot, generator>>


-----------------------------------------------------------------------------
(* Reading the book                                                        *)

AllSources == {"OKX", "Binance", "Bybit", "Upbit", "Bithumb", "Coinone", "X", "Y"}

HasLatest(exchange, symbol) ==
    exchange \in DOMAIN price_data /\ Has(price_data[exchange], symbol)

Latest(exchange, symbol) == Get(price_data[exchange], symbol)

History(exchange, symbol) ==
    IF exchange \in DOMAIN price_history /\ symbol \in DOMAIN price_history[exchange]
    THEN price_history[exchange][symbol]
    ELSE <<>>

\* the update_price_data calls made for one key, in arrival order
KeyLog(exchange, symbol) ==
    SelectSeq(log, LAMBDA c : c.exchange = exchange /\ c.symbol = symbol)

LoggedSymbols == {log[i].symbol : i \in 1..Len(log)}

-----------------------------------------------------------------------------
(* Claims on the quote book                                                *)

\* C1: after update_price_data with a well-formed quote, whatever updates
\* came before, the latest quote of that key is exactly the exchange,
\* symbol, bid, ask and volume just passed in.
C1_UpdateThenLatest ==
    (last.op = "update_price_data" /\ ValidQuote(last.bid, last.ask, last.volume)) =>
        /\ HasLatest(last.exchange, last.symbol)
        /\ LET q == Latest(last.exchange, last.symbol)
           IN  /\ q.exchange = last.exchange
               /\ q.symbol = last.symbol
               /\ q.bid_price = last.bid
               /\ q.ask_price = last.ask
               /\ q.volume = last.volume

\* a well-formed update has just overwritten a different earlier quote of its key
C1_Witness ==
    /\ last.op = "update_price_data"
    /\ ValidQuote(last.bid, last.ask, last.volume)
    /\ LET kl == KeyLog(last.exchange, last.symbol)
       IN  /\ Len(kl) >= 2
           /\ kl[Len(kl) - 1].bid # last.bid
    /\ Latest(last.exchange, last.symbol).bid_price = last.bid

\* C2: the history of every key holds at most HistoryCapacity entries and
\* is exactly the last min(n, capacity) quotes stored for that key, in
\* arrival order.
C2_HistoryIsLastN ==
    \A e \in AllSources, s \in LoggedSymbols :
        LET kl == KeyLog(e, s)
            h  == History(e, s)
            k  == IF Len(kl) < HistoryCapacity THEN Len(kl) ELSE HistoryCapacity
        IN  /\ Len(h) <= HistoryCapacity
            /\ Len(h) = k
            /\ \A i \in 1..k :
                   LET c == kl[Len(kl) - k + i]
                   IN  /\ h[i].bid = c.bid
                       /\ h[i].ask = c.ask
                       /\ h[i].volume = c.volume

\* a key has received capacity + 1 updates; its first quote is gone and the
\* newest is the last element
C2_Witness ==
    \E e \in AllSources, s \in LoggedSymbols :
        LET kl == KeyLog(e, s)
            h  == History(e, s)
        IN  /\ Len(kl) = HistoryCapacity + 1
            /\ Len(h) = HistoryCapacity
            /\ \A i \in 1..Len(h) : h[i].bid # kl[1].bid \/ h[i].ask # kl[1].ask
            /\ h[Len(h)].bid = kl[Len(kl)].bid
            /\ h[Len(h)].ask = kl[Len(kl)].ask

\* C3: an update whose quote has ask < bid, bid <= 0 or volume < 0 is
\* rejected: the latest quotes and the histories of all keys stay as they
\* were before the call.
C3_InvalidQuoteRejected ==
    [][ (log' # log /\ ~ValidQuote(last'.bid, last'.ask, last'.volume))
            => (price_data' = price_data /\ price_history' = price_history) ]_vars


-----------------------------------------------------------------------------
(* The quote book alone: update_price_data called on two keys              *)

MaxBookUpdates == 5

\* (exchange, quote) of the update_price_data calls; the last three quotes
\* are malformed: ask < bid, bid <= 0, volume < 0
BookInputs ==
    { <<"OKX", Q(R(1), R(1), R(0))>>, <<"OKX", Q(R(1), R(2), R(1))>>,
      <<"OKX", Q(R(2), R(1), R(1))>>, <<"OKX", Q(R(0), R(1), R(1))>>,
      <<"OKX", Q(R(1), R(1), R(-1))>>,
      <<"X", Q(R(1), R(2), R(1))>>,   <<"X", Q(R(2), R(3), R(2))>> }

NextBook ==
    \E in \in BookInputs :
        /\ Len(log) < MaxBookUpdates
        /\ update_price_data(in[1], BTC_USDT, in[2].bid, in[2].ask, in[2].volume)

SpecBook == Init /\ [][NextBook]_vars

-----------------------------------------------------------------------------
(* The cross-exchange scan: a configured analyzer, a few quotes of one     *)
(* instrument, then find_cross_exchange_arbitrage                          *)

MaxCrossUpdates == 3

\* (exchange, quote) of the update_price_data calls
CrossInputs ==
    { <<"OKX", Q(R(99), R(100), R(5))>>,      <<"OKX", Q(R(1001), R(1002), R(4))>>,
      <<"OKX", Q(R(0), R(0), R(1))>>,
      <<"Binance", Q(R(101), R(102), R(3))>>, <<"Binance", Q(R(999), R(1000), R(2))>>,
      <<"Upbit", Q(R(101), R(102), R(3))>>,   <<"Upbit", Q(R(999), R(1000), R(2))>>,
      <<"X", Q(R(99), R(100), R(5))>>,        <<"X", Q(R(1001), R(1002), R(4))>> }

ListedSources == {exchanges[i] : i \in 1..Len(exchanges)}

ZeroFees == [e \in ListedSources |-> R(0)]

ZeroFeesAll == [e \in AllSources |-> R(0)]

CrossFeeTables ==
    { InitTradingFees, ZeroFees, ZeroFeesAll, EmptyDict,
      [e \in {"OKX"} |-> Frac(1, 100)] }

CrossThresholds ==
    { InitMinProfitThreshold,
      [InitMinProfitThreshold EXCEPT !.cross_exchange = Frac(1, 1000)],
      [InitMinProfitThreshold EXCEPT !.cross_exchange = Frac(1, 100)] }

NextCross ==
    \/ \E fees \in CrossFeeTables, thr \in CrossThresholds :
           /\ log = <<>>
           /\ last.op = "__init__"
           /\ Configure(fees, thr)
    \/ \E in \in CrossInputs :
           /\ Len(log) < MaxCrossUpdates
           /\ update_price_data(in[1], BTC_USDT, in[2].bid, in[2].ask, in[2].volume)
    \/ find_cross_exchange_arbitrage(BTC_USDT)

SpecCross == Init /\ [][NextCross]_vars

-----------------------------------------------------------------------------
(* Claims on the cross-exchange scan                                       *)

QuotingSources(symbol) == {e \in AllSources : HasLatest(e, symbol)}

AllValid(symbol) ==
    \A e \in QuotingSources(symbol) :
        LET q == Latest(e, symbol) IN ValidQuote(q.bid_price, q.ask_price, q.volume)

\* net_buy = buy.ask * (1 + buy_fee) and net_sell = sell.bid * (1 - sell_fee)
NetBuyAt(exchange, symbol, fee_rate) ==
    RMul(Latest(exchange, symbol).ask_price, RAdd(R(1), fee_rate))

NetSellAt(exchange, symbol, fee_rate) ==
    RMul(Latest(exchange, symbol).bid_price, RSub(R(1), fee_rate))

\* (net_sell - net_buy) / net_buy, for net_buy # 0
ProfitRatio(net_sell, net_buy) == RDiv(RSub(net_sell, net_buy), net_buy)

\* C4: for every book, fee table and cross-exchange threshold, no
\* opportunity returned by find_cross_exchange_arbitrage has a post-fee
\* profit ratio (net_sell - net_buy) / net_buy below the threshold.
C4_CrossNeverBelowThreshold ==
    last.op = "find_cross_exchange_arbitrage" =>
        \A i \in 1..Len(result) :
            LET o        == result[i]
                net_buy  == NetBuyAt(o.buy_exchange, last.symbol,
                                     FeeOf(trading_fees, o.buy_exchange))
                net_sell == NetSellAt(o.sell_exchange, last.symbol,
                                      FeeOf(trading_fees, o.sell_exchange))
            IN  /\ net_buy.n # 0
                /\ RGe(ProfitRatio(net_sell, net_buy), min_profit_threshold.cross_exchange)

\* under a configured fee table and threshold the scan returned an
\* opportunity and withheld a pair that gains after fees but less than the
\* threshold
C4_Witness ==
    /\ last.op = "find_cross_exchange_arbitrage"
    /\ trading_fees # InitTradingFees
    /\ min_profit_threshold # InitMinProfitThreshold
    /\ Len(result) >= 1
    /\ \E a, b \in ListedSources :
          /\ a # b /\ HasLatest(a, last.symbol) /\ HasLatest(b, last.symbol)
          /\ LET net_buy  == NetBuyAt(a, last.symbol, FeeOf(trading_fees, a))
                 net_sell == NetSellAt(b, last.symbol, FeeOf(trading_fees, b))
             IN  /\ RGt(net_buy, R(0))
                 /\ RGt(net_sell, net_buy)
                 /\ RLt(ProfitRatio(net_sell, net_buy), min_profit_threshold.cross_exchange)
          /\ \A i \in 1..Len(result) :
                 result[i].buy_exchange # a \/ result[i].sell_exchange # b

\* exactly the two sources a and b quote the symbol, both with well-formed
\* quotes and a fee-table entry of 0, a.ask < b.bid, and the ratio
\* (b.bid - a.ask) / a.ask is not below the cross-exchange threshold
TwoSourceCase(symbol, a, b) ==
    /\ a # b
    /\ QuotingSources(symbol) = {a, b}
    /\ AllValid(symbol)
    /\ a \in DOMAIN trading_fees /\ trading_fees[a] = R(0)
    /\ b \in DOMAIN trading_fees /\ trading_fees[b] = R(0)
    /\ RLt(Latest(a, symbol).ask_price, Latest(b, symbol).bid_price)
    /\ RGe(ProfitRatio(Latest(b, symbol).bid_price, Latest(a, symbol).ask_price),
           min_profit_threshold.cross_exchange)

\* the one opportunity: buy at a, sell at b, ratio (b.bid - a.ask) / a.ask
OneOpportunity(symbol, a, b) ==
    /\ Len(result) = 1
    /\ result[1].type = "cross_exchange"
    /\ result[1].buy_exchange = a
    /\ result[1].sell_exchange = b
    /\ result[1].profit_percent =
           RMul(ProfitRatio(Latest(b, symbol).bid_price, Latest(a, symbol).ask_price), R(100))

\* C5: with exactly two sources A and B quoting the symbol, fees 0 and
\* A.ask < B.bid, find_cross_exchange_arbitrage yields exactly one
\* opportunity, buy at A and sell at B, with profit ratio
\* (B.bid - A.ask) / A.ask.  The claim is read in the code's favour: both
\* fee entries are present and 0, and the ratio reaches the threshold the
\* scan applies to every opportunity.
C5_TwoSourcesExactlyOne ==
    last.op = "find_cross_exchange_arbitrage" =>
        \A a, b \in AllSources :
            TwoSourceCase(last.symbol, a, b) => OneOpportunity(last.symbol, a, b)

\* the fee rate of the spec: the table's entry, 0 if the source has none
FeeOrZero(exchange) ==
    IF exchange \in DOMAIN trading_fees THEN trading_fees[exchange] ELSE R(0)

\* C7: a source without an entry in the fee table is charged 0 on the buy
\* leg and on the sell leg: every opportunity's spread is the sell bid less
\* its table fee (0 if absent) minus the buy ask plus its table fee (0 if
\* absent).
C7_AbsentFeeIsZero ==
    last.op = "find_cross_exchange_arbitrage" =>
        \A i \in 1..Len(result) :
            LET o == result[i]
            IN  o.spread =
                    RSub(NetSellAt(o.sell_exchange, last.symbol, FeeOrZero(o.sell_exchange)),
                         NetBuyAt(o.buy_exchange, last.symbol, FeeOrZero(o.buy_exchange)))

\* a pair of distinct quoting sources that clears fees and threshold
Profitable(symbol, a, b) ==
    LET net_buy  == NetBuyAt(a, symbol, FeeOf(trading_fees, a))
        net_sell == NetSellAt(b, symbol, FeeOf(trading_fees, b))
    IN  /\ RGt(net_buy, R(0))
        /\ RGt(net_sell, net_buy)
        /\ RGe(ProfitRatio(net_sell, net_buy), min_profit_threshold.cross_exchange)

\* C8: every ordered pair of distinct sources with a latest quote for the
\* symbol is evaluated, whatever the identifiers: each pair that clears
\* fees and threshold is among the opportunities, and no opportunity pairs
\* a source with itself.
C8_EveryQuotingPairEvaluated ==
    (last.op = "find_cross_exchange_arbitrage" /\ AllValid(last.symbol)) =>
        /\ \A a, b \in QuotingSources(last.symbol) :
               (a # b /\ Profitable(last.symbol, a, b)) =>
                   \E i \in 1..Len(result) :
                       result[i].buy_exchange = a /\ result[i].sell_exchange = b
        /\ \A i \in 1..Len(result) : result[i].buy_exchange # result[i].sell_exchange

-----------------------------------------------------------------------------
(* The book after a sequence of update_price_data calls                    *)

Call(exchange, symbol, q) ==
    [exchange |-> exchange, symbol |-> symbol, bid |-> q.bid, ask |-> q.ask,
     volume |-> q.volume]

RECURSIVE DataAfter(_, _)
DataAfter(calls, k) ==
    IF k = 0 THEN EmptyDict
    ELSE StoreLatest(DataAfter(calls, k - 1), calls[k].exchange, calls[k].symbol,
                     calls[k].bid, calls[k].ask, calls[k].volume)

RECURSIVE HistoryAfter(_, _)
HistoryAfter(calls, k) ==
    IF k = 0 THEN EmptyDict
    ELSE AppendHistory(HistoryAfter(calls, k - 1), calls[k].exchange, calls[k].symbol,
                       calls[k].bid, calls[k].ask, calls[k].volume)

-----------------------------------------------------------------------------
(* The statistical scan: books in which OKX and Binance have received      *)
(* StatWindow + 1 quotes of BTC-USDT and of ETH-USDT each, then further    *)
(* updates and find_statistical_arbitrage                                  *)

MaxStatUpdates == 1

\* the calls of one exchange: a first quote of each instrument, then
\* StatWindow - 1 rounds quoting (b1, e1) and a last round quoting (b2, e2)
StatRun(exchange, b1, b2, e1, e2) ==
    [i \in 1..(2 * StatWindow + 2) |->
        LET round == (i + 1) \div 2
            btc   == (i % 2) = 1
        IN  Call(exchange, IF btc THEN BTC_USDT ELSE ETH_USDT,
                 IF round = 1 THEN Q(R(3), R(3), R(1))
                 ELSE IF round = StatWindow + 1 THEN (IF btc THEN b2 ELSE e2)
                 ELSE (IF btc THEN b1 ELSE e1))]

StatBtcQuotes == { Q(R(7), R(7), R(1)), Q(R(5), R(9), R(1)), Q(R(2), R(2), R(1)) }

\* the last two quotes are malformed: a zero ask, and a zero mid
StatEthQuotes ==
    { Q(R(1), R(1), R(1)), Q(R(2), R(2), R(1)),
      Q(R(1), R(0), R(1)), Q(R(-1), R(1), R(1)) }

StatOkxRuns ==
    { StatRun("OKX", b1, b2, e1, e2) :
          b1 \in StatBtcQuotes, b2 \in StatBtcQuotes,
          e1 \in StatEthQuotes, e2 \in StatEthQuotes }

\* a series that moves, a constant series, a constant series quoted wide
StatBinanceRuns ==
    { StatRun("Binance", Q(R(1), R(1), R(1)), Q(R(1), R(1), R(1)),
                         Q(R(1), R(1), R(1)), Q(R(1), R(3), R(1))),
      StatRun("Binance", Q(R(2), R(2), R(1)), Q(R(2), R(2), R(1)),
                         Q(R(1), R(1), R(1)), Q(R(1), R(1), R(1))),
      StatRun("Binance", Q(R(7), R(7), R(1)), Q(R(5), R(9), R(1)),
                         Q(R(1), R(1), R(1)), Q(R(1), R(1), R(1))) }

StatInputs ==
    { <<"OKX", BTC_USDT, Q(R(5), R(9), R(1))>>, <<"OKX", ETH_USDT, Q(R(2), R(2), R(1))>>,
      <<"OKX", ETH_USDT, Q(R(1), R(0), R(1))>>,
      <<"Binance", BTC_USDT, Q(R(1), R(3), R(1))>>,
      <<"Binance", ETH_USDT, Q(R(1), R(1), R(1))>> }

InitStat ==
    /\ log \in {okx \o bin : okx \in StatOkxRuns, bin \in StatBinanceRuns}
    /\ price_data = DataAfter(log, Len(log))
    /\ price_history = HistoryAfter(log, Len(log))
    /\ trading_fees = InitTradingFees
    /\ min_profit_threshold = InitMinProfitThreshold
    /\ arbitrage_opportunities = <<>>
    /\ last = [op |-> "update_price_data", exchange |-> log[Len(log)].exchange,
               symbol |-> log[Len(log)].symbol, bid |-> log[Len(log)].bid,
               ask |-> log[Len(log)].ask, volume |-> log[Len(log)].volume]
    /\ result = <<>>
    /\ issued = {}
    /\ threads = NoCalls
    /\ OtherPrograms

NextStat ==
    \/ \E in \in StatInputs :
           /\ Len(log) < 2 * (2 * StatWindow + 2) + MaxStatUpdates
           /\ update_price_data(in[1], in[2], in[3].bid, in[3].ask, in[3].volume)
    \/ find_statistical_arbitrage

SpecStat == InitStat /\ [][NextStat]_vars

-----------------------------------------------------------------------------
(* Claims on the statistical scan                                          *)

\* the exchange has both instruments with more than StatWindow history
\* entries each, and the mid-price ratios over the window are all the same
\* finite number
ConstantRatioSeries(exchange) ==
    /\ HasLatest(exchange, BTC_USDT) /\ HasLatest(exchange, ETH_USDT)
    /\ Len(History(exchange, BTC_USDT)) > StatWindow
    /\ Len(History(exchange, ETH_USDT)) > StatWindow
    /\ LET hist1 == LastN(History(exchange, BTC_USDT), StatWindow)
           hist2 == LastN(History(exchange, ETH_USDT), StatWindow)
       IN  /\ \A i \in 1..StatWindow : hist2[i].mid.n # 0
           /\ \A i, j \in 1..StatWindow :
                  RDiv(hist1[i].mid, hist2[i].mid) = RDiv(hist1[j].mid, hist2[j].mid)

\* current_ratio = price1.bid / price2.ask has a value
CurrentRatioDefined(exchange) == Latest(exchange, ETH_USDT).ask_price.n # 0

WithoutSource(pd, exchange) == [e \in (DOMAIN pd) \ {exchange} |-> pd[e]]

\* every update_price_data call so far passed a well-formed quote
LogValid == \A i \in 1..Len(log) : ValidQuote(log[i].bid, log[i].ask, log[i].volume)

\* C9: when an exchange's mid-price ratio series over the window is
\* constant (its standard deviation is 0), find_statistical_arbitrage
\* returns no opportunity for it whatever the current ratio, does not fail,
\* and evaluates the other exchanges: its result is the one it gives with
\* that exchange absent.  Stated for books of well-formed quotes.
C9_ConstantRatioEmitsNothing ==
    (last.op = "find_statistical_arbitrage" /\ LogValid) =>
        \A e \in ListedSources :
            (ConstantRatioSeries(e) /\ CurrentRatioDefined(e)) =>
                /\ \A i \in 1..Len(result) : result[i].buy_exchange # e
                /\ result = StatisticalArbitrage(WithoutSource(price_data, e),
                                                 price_history, min_profit_threshold)

-----------------------------------------------------------------------------
(* The whole scan: a configured analyzer, quotes of the spot and swap      *)
(* instruments from listed and unlisted sources, and                       *)
(* generate_arbitrage_signal                                               *)

MaxScanUpdates == 3

MaxSignals == 2

BTC_USDT_SWAP == <<"BTC", "USDT", "SWAP">>

ScanInputs ==
    { <<"X", BTC_USD, Q(R(100), Frac(1001, 10), R(1))>>,
      <<"Y", BTC_USD, Q(Frac(1005, 10), Frac(1006, 10), R(1))>>,
      <<"OKX", BTC_USDT, Q(Frac(999, 10), R(100), R(1))>>,
      <<"OKX", BTC_USDT_SWAP, Q(Frac(1002, 10), Frac(1003, 10), R(1))>>,
      <<"Binance", BTC_USDT, Q(Frac(1002, 10), Frac(1003, 10), R(1))>>,
      <<"Binance", BTC_USDT, Q(Frac(1005, 10), Frac(1006, 10), R(1))>>,
      <<"Binance", BTC_USDT, Q(R(101), Frac(1011, 10), R(1))>>,
      <<"Binance", BTC_USDT, Q(R(105), Frac(1051, 10), R(1))>>,
      <<"Binance", BTC_USDT, Q(R(110), Frac(1101, 10), R(1))>> }

ScanThreshold == [InitMinProfitThreshold EXCEPT !.cross_exchange = Frac(1, 1000)]

NextScan ==
    \/ /\ log = <<>>
       /\ last.op = "__init__"
       /\ Configure(ZeroFeesAll, ScanThreshold)
    \/ \E in \in ScanInputs :
           /\ Len(log) < MaxScanUpdates
           /\ update_price_data(in[1], in[2], in[3].bid, in[3].ask, in[3].volume)
    \/ /\ Len(arbitrage_opportunities) < MaxSignals
       /\ generate_arbitrage_signal

SpecScan == Init /\ [][NextScan]_vars

-----------------------------------------------------------------------------
(* Claims on generate_arbitrage_signal                                     *)

\* the book holds nothing but the latest quote [bid, ask] of each of the
\* two sources for the symbol
OnlyQuotes(symbol, x, xbid, xask, y, ybid, yask) ==
    /\ DOMAIN price_data = {x, y}
    /\ Len(price_data[x]) = 1 /\ Len(price_data[y]) = 1
    /\ HasLatest(x, symbol) /\ HasLatest(y, symbol)
    /\ Latest(x, symbol).bid_price = xbid /\ Latest(x, symbol).ask_price = xask
    /\ Latest(y, symbol).bid_price = ybid /\ Latest(y, symbol).ask_price = yask

\* C6: after updates for BTC-USD from source X (bid 100, ask 100.1) and
\* source Y (bid 100.5, ask 100.6), with zero fees and a cross threshold of
\* 0.1%, generate_arbitrage_signal returns one cross-exchange opportunity
\* with buy source X, sell source Y and profit ratio (100.5 - 100.1) / 100.1.
C6_EndToEndXY ==
    ( /\ last.op = "generate_arbitrage_signal"
      /\ OnlyQuotes(BTC_USD, "X", R(100), Frac(1001, 10), "Y", Frac(1005, 10), Frac(1006, 10))
      /\ trading_fees = ZeroFeesAll
      /\ min_profit_threshold.cross_exchange = Frac(1, 1000) )
    =>
    ( /\ Len(result) = 1
      /\ result[1].type = "cross_exchange"
      /\ result[1].total_opportunities = 1
      /\ result[1].buy_exchange = "X"
      /\ result[1].sell_exchange = "Y"
      /\ result[1].profit_percent =
             RMul(RDiv(RSub(Frac(1005, 10), Frac(1001, 10)), Frac(1001, 10)), R(100)) )

\* NORMAL < ULTRA < MEGA < LEGENDARY < GODLIKE
GradeRank(grade) ==
    CASE grade = "ARBITRAGE_NORMAL"    -> 1
      [] grade = "ARBITRAGE_ULTRA"     -> 2
      [] grade = "ARBITRAGE_MEGA"      -> 3
      [] grade = "ARBITRAGE_LEGENDARY" -> 4
      [] grade = "ARBITRAGE_GODLIKE"   -> 5

\* C10: of two best opportunities returned by generate_arbitrage_signal,
\* the one with the higher profit_percent never has the lower grade.
C10_GradeMonotonic ==
    \A a, b \in issued :
        RGt(a.profit_percent, b.profit_percent) => GradeRank(a.grade) >= GradeRank(b.grade)

\* two signals of different grades have been returned
C10_Witness ==
    \E a, b \in issued :
        /\ RGt(a.profit_percent, b.profit_percent)
        /\ GradeRank(a.grade) > GradeRank(b.grade)

\* the number of the boundaries 0.5, 1, 5, 10 that the percentage reaches, plus one
TierOf(profit) ==
    1 + Cardinality({b \in {Frac(1, 2), R(1), R(5), R(10)} : RGe(profit, b)})

\* C11: the grade is a lookup of profit_percent alone in the table
\* >= 10 GODLIKE, >= 5 LEGENDARY, >= 1 MEGA, >= 0.5 ULTRA, else NORMAL, a
\* boundary value falling in the higher grade.
C11_TierIsThresholdLookup ==
    \A a \in issued : GradeRank(a.grade) = TierOf(a.profit_percent)

\* signals at the boundaries 10 and 5 were returned, graded GODLIKE and LEGENDARY
C11_Witness ==
    \E a, b \in issued :
        /\ a.profit_percent = R(10) /\ a.grade = "ARBITRAGE_GODLIKE"
        /\ b.profit_percent = R(5)  /\ b.grade = "ARBITRAGE_LEGENDARY"

\* a count of zero for every kind of opportunity
ZeroCounts == [cross_exchange |-> 0, triangular |-> 0, statistical |-> 0, future_spot |-> 0]

\* C12: on a book that never received an update, generate_arbitrage_signal
\* returns a value that holds no best opportunity and a count of zero for
\* every kind.
C12_EmptyBookZeroCounts ==
    (last.op = "generate_arbitrage_signal" /\ log = <<>>) =>
        /\ Len(result) = 1
        /\ result[1].total_opportunities = 0
        /\ result[1].opportunities_by_type = ZeroCounts

\* the opportunities the scans of generate_arbitrage_signal find in the book
Found == AllOpportunities(price_data, price_history, trading_fees, min_profit_threshold)

\* the signal reports the opportunity op
Reports(signal, op) ==
    /\ signal.type = op.type /\ signal.symbol = op.symbol
    /\ signal.profit_percent = op.profit_percent /\ signal.spread = op.spread
    /\ signal.buy_exchange = op.buy_exchange /\ signal.sell_exchange = op.sell_exchange
    /\ signal.buy_price = op.buy_price /\ signal.sell_price = op.sell_price
    /\ signal.volume = op.volume /\ signal.confidence = op.confidence

\* C13: when the scans find an opportunity, generate_arbitrage_signal
\* returns the one of maximum profit_percent, the first found among those
\* that share the maximum, and its counts by kind sum to the number found.
C13_BestIsFirstMaximum ==
    (last.op = "generate_arbitrage_signal" /\ Found # <<>>) =>
        /\ Len(result) = 1
        /\ \E i \in 1..Len(Found) :
               /\ Reports(result[1], Found[i])
               /\ \A j \in 1..Len(Found) :
                      RLe(Found[j].profit_percent, Found[i].profit_percent)
               /\ \A j \in 1..(i - 1) :
                      RLt(Found[j].profit_percent, Found[i].profit_percent)
        /\ result[1].total_opportunities = Len(Found)
        /\ LET c == result[1].opportunities_by_type
           IN  c.cross_exchange + c.triangular + c.statistical + c.future_spot = Len(Found)

\* a cross-exchange and a future-spot opportunity share the maximum and the
\* cross-exchange one, found first, was returned
C13_Witness ==
    /\ last.op = "generate_arbitrage_signal"
    /\ Len(Found) = 2
    /\ Found[1].type = "cross_exchange" /\ Found[2].type = "future_spot"
    /\ Found[1].profit_percent = Found[2].profit_percent
    /\ Len(result) = 1
    /\ result[1].type = "cross_exchange"

\* C14: generate_arbitrage_signal changes no latest quote and no history,
\* and the analyzer's stored opportunity list is the same after it as before.
C14_ScanReadOnly ==
    [][ last'.op = "generate_arbitrage_signal"
            => /\ price_data' = price_data
               /\ price_history' = price_history
               /\ arbitrage_opportunities' = arbitrage_opportunities ]_vars

\* the code's names of the kinds cross_source, triangular and mean_reversion
ThreeKinds == {"cross_exchange", "triangular", "statistical"}

\* C20: the best opportunity returned by generate_arbitrage_signal has one of
\* the kinds cross_source, triangular or mean_reversion, and its profit ratio
\* is at or above the minimum threshold of its kind.
C20_KindAndThreshold ==
    (last.op = "generate_arbitrage_signal" /\ result # <<>>) =>
        /\ result[1].type \in ThreeKinds
        /\ RGe(RDiv(result[1].profit_percent, R(100)), min_profit_threshold[result[1].type])

\* the latest quote of the source for the symbol is well-formed
WellFormedAt(exchange, symbol) ==
    /\ HasLatest(exchange, symbol)
    /\ ValidQuote(Latest(exchange, symbol).bid_price, Latest(exchange, symbol).ask_price,
                  Latest(exchange, symbol).volume)

\* C19: a malformed quote of one source affects only the pairs that use it:
\* find_cross_exchange_arbitrage still returns every pair of two other
\* listed sources whose well-formed quotes clear fees and threshold.
C19_MalformedQuoteIsolated ==
    last.op = "find_cross_exchange_arbitrage" =>
        \A a, b \in ListedSources :
            ( /\ a # b
              /\ WellFormedAt(a, last.symbol) /\ WellFormedAt(b, last.symbol)
              /\ Profitable(last.symbol, a, b) ) =>
                \E i \in 1..Len(result) :
                    result[i].buy_exchange = a /\ result[i].sell_exchange = b

\* the latest quotes and a full window of history of both instruments exist
\* at the source, and the ratios of the scan have values
EnoughHistory(exchange) ==
    /\ HasLatest(exchange, BTC_USDT) /\ HasLatest(exchange, ETH_USDT)
    /\ Len(History(exchange, BTC_USDT)) > StatWindow
    /\ Len(History(exchange, ETH_USDT)) > StatWindow
    /\ Latest(exchange, ETH_USDT).ask_price.n # 0
    /\ \A i \in 1..StatWindow :
           LastN(History(exchange, ETH_USDT), StatWindow)[i].mid.n # 0

\* the series of mid-price ratios of the source over the window
RatioSeries(exchange) ==
    [i \in 1..StatWindow |->
        Fl(RDiv(LastN(History(exchange, BTC_USDT), StatWindow)[i].mid,
                LastN(History(exchange, ETH_USDT), StatWindow)[i].mid))]

\* first bid over second ask
CurrentRatio(exchange) ==
    Fl(RDiv(Latest(exchange, BTC_USDT).bid_price, Latest(exchange, ETH_USDT).ask_price))

\* current ratio less the mean of the series: z-score times standard deviation
Deviation(exchange) == Fl(RSub(CurrentRatio(exchange), Mean(RatioSeries(exchange))))

\* standard deviation positive, |z| > 2, |z| * std / current_ratio >= threshold
ZScoreQualifies(dev, var_ratio, current_ratio) ==
    /\ RGt(var_ratio, R(0))
    /\ RGt(RMul(dev, dev), RMul(R(4), var_ratio))
    /\ \/ current_ratio.n = 0
       \/ RGe(RDiv(RAbs(dev), current_ratio), min_profit_threshold.statistical)

Qualifies(exchange) ==
    /\ EnoughHistory(exchange)
    /\ ZScoreQualifies(Deviation(exchange), Variance(RatioSeries(exchange)),
                       CurrentRatio(exchange))

\* the direction of an opportunity follows the sign of the z-score
DirectionFollowsSign(o, exchange) ==
    IF Deviation(exchange).n > 0
    THEN /\ o.symbol = <<ETH_USDT, BTC_USDT>>
         /\ o.buy_price = Latest(exchange, ETH_USDT).ask_price
         /\ o.sell_price = Latest(exchange, BTC_USDT).bid_price
    ELSE /\ o.symbol = <<BTC_USDT, ETH_USDT>>
         /\ o.buy_price = Latest(exchange, BTC_USDT).ask_price
         /\ o.sell_price = Latest(exchange, ETH_USDT).bid_price

-----------------------------------------------------------------------------
(* The triangular scan: OKX quotes of two instruments against USDT and of  *)
(* the cross instrument in either orientation                              *)

find_triangular_arbitrage(base_currency) ==
    /\ result' = TriangularArbitrage(price_data, min_profit_threshold, base_currency)
    /\ last' = [op |-> "find_triangular_arbitrage", base_currency |-> base_currency]
    /\ UNCHANGED <<price_data, price_history, trading_fees, min_profit_threshold,
                   arbitrage_opportunities, log, issued, threads,
                   telegram_bot, main, telegram, trading_bot, generator>>

MaxTriUpdates == 4

ETH_BTC == <<"ETH", "BTC">>
BTC_ETH == <<"BTC", "ETH">>

\* BTC.bid / ETH.ask = 4 and ETH.bid / BTC.ask = 1/10, while ETH.ask / BTC.bid = 1/4;
\* the third ETH-BTC quote lies between the 0.1 % margin and the 0.2 % threshold
TriInputs ==
    { <<BTC_USDT, Q(R(8), R(10), R(3))>>,
      <<ETH_USDT, Q(R(1), R(2), R(2))>>,
      <<ETH_BTC, Q(Frac(1, 6), Frac(1, 5), R(1))>>,
      <<ETH_BTC, Q(Frac(1, 25), Frac(1, 20), R(5))>>,
      <<ETH_BTC, Q(Frac(1, 11), Frac(200, 2003), R(1))>>,
      <<BTC_ETH, Q(R(2), R(3), R(1))>>,
      <<BTC_ETH, Q(R(4), R(5), R(1))>> }

\* quotes of another source, among them an ETH-BTC ask far below the implied rate
TriBinanceInputs ==
    { <<BTC_USDT, Q(R(80), R(100), R(1))>>,
      <<ETH_USDT, Q(R(1), R(2), R(1))>>,
      <<ETH_BTC, Q(Frac(1, 250), Frac(1, 200), R(1))>> }

NextTri ==
    \/ \E in \in TriInputs :
           /\ Len(log) < MaxTriUpdates
           /\ update_price_data("OKX", in[1], in[2].bid, in[2].ask, in[2].volume)
    \/ \E in \in TriBinanceInputs :
           /\ Len(log) < MaxTriUpdates
           /\ update_price_data("Binance", in[1], in[2].bid, in[2].ask, in[2].volume)
    \/ find_triangular_arbitrage("USDT")

SpecTri == Init /\ [][NextTri]_vars

\* the implied rate exceeds the quoted ask by more than the 0.1 % margin and
\* its relative deviation from the ask meets the triangular threshold
ImpliedRateQualifies(implied, cross_ask) ==
    /\ RGt(implied, RMul(cross_ask, Frac(1001, 1000)))
    /\ RGe(RDiv(RSub(implied, cross_ask), cross_ask), min_profit_threshold.triangular)

\* exactly one triangular opportunity of the two currencies has the profit
\* ratio (implied - cross_ask) / cross_ask
OneTriangular(a, b, implied, cross_ask) ==
    Cardinality({i \in 1..Len(result) :
                    /\ result[i].type = "triangular"
                    /\ result[i].symbol \in {<<a, b, "USDT">>, <<b, a, "USDT">>}
                    /\ result[i].profit_percent =
                           RMul(RDiv(RSub(implied, cross_ask), cross_ask), R(100))}) = 1

\* C17: find_triangular_arbitrage handles both orientations of the cross
\* instrument.  When A-B is quoted and A.bid / B.ask qualifies against the
\* A-B ask, one triangular opportunity with that relative deviation is
\* returned; when only B-A is quoted and the inverse implied rate
\* B.ask / A.bid qualifies against the B-A ask, one triangular opportunity
\* with that relative deviation is returned.
C17_BothOrientations ==
    (last.op = "find_triangular_arbitrage" /\ LogValid) =>
        \A a, b \in {"BTC", "ETH"} :
            (a # b /\ HasLatest("OKX", <<a, "USDT">>) /\ HasLatest("OKX", <<b, "USDT">>)) =>
                LET A == Latest("OKX", <<a, "USDT">>)
                    B == Latest("OKX", <<b, "USDT">>)
                IN  /\ ( /\ HasLatest("OKX", <<a, b>>)
                         /\ ImpliedRateQualifies(RDiv(A.bid_price, B.ask_price),
                                                 Latest("OKX", <<a, b>>).ask_price) )
                       => OneTriangular(a, b, RDiv(A.bid_price, B.ask_price),
                                        Latest("OKX", <<a, b>>).ask_price)
                    /\ ( /\ ~HasLatest("OKX", <<a, b>>)
                         /\ HasLatest("OKX", <<b, a>>)
                         /\ ImpliedRateQualifies(RDiv(B.ask_price, A.bid_price),
                                                 Latest("OKX", <<b, a>>).ask_price) )
                       => OneTriangular(a, b, RDiv(B.ask_price, A.bid_price),
                                        Latest("OKX", <<b, a>>).ask_price)

-----------------------------------------------------------------------------
(* Calls in threads.  A call of update_price_data runs statement by        *)
(* statement (lines 92-107), and so does the part of                       *)
(* find_cross_exchange_arbitrage that reads the book (lines 115-117);      *)
(* between two statements of one thread any other thread may run.          *)

MaxConcCalls == 2

\* the statement the thread is at
At(t, pc) == threads[t].pc = pc

Goto(t, pc) == threads' = [threads EXCEPT ![t].pc = pc]

\* the call returns, or a KeyError reaches the handler of line 108
Return(t) == threads' = [threads EXCEPT ![t] = Idle]

Scanning == threads["scan"].pc \in {"116", "117", "118"}

\* the quotes that are the latest of their key in the book
LatestQuotes(pd) == UNION {{pd[e][i] : i \in 1..Len(pd[e])} : e \in DOMAIN pd}

\* line 89: the call begins
UpdateCall(t, exchange, symbol, bid, ask, volume) ==
    /\ At(t, "idle")
    /\ threads' = [threads EXCEPT ![t] =
                      [pc |-> "92", exchange |-> exchange, symbol |-> symbol,
                       bid |-> bid, ask |-> ask, volume |-> volume]]
    /\ log' = Append(log, [exchange |-> exchange, symbol |-> symbol,
                           bid |-> bid, ask |-> ask, volume |-> volume])
    /\ UNCHANGED <<price_data, price_history, trading_fees, min_profit_threshold,
                   arbitrage_opportunities, last, result, issued,
                   telegram_bot, main, telegram, trading_bot, generator>>

\* line 92: if exchange not in self.price_data
UpdateLine92(t) ==
    /\ At(t, "92")
    /\ Goto(t, IF threads[t].exchange \in DOMAIN price_data THEN "94" ELSE "93")
    /\ UNCHANGED <<price_data, price_history, trading_fees, min_profit_threshold,
                   arbitrage_opportunities, last, result, log, issued,
                   telegram_bot, main, telegram, trading_bot, generator>>

\* line 93: self.price_data[exchange] = {}
UpdateLine93(t) ==
    /\ At(t, "93")
    /\ price_data' = DictPut(price_data, threads[t].exchange, <<>>)
    /\ Goto(t, "94")
    /\ UNCHANGED <<price_history, trading_fees, min_profit_threshold,
                   arbitrage_opportunities, last, result, log, issued,
                   telegram_bot, main, telegram, trading_bot, generator>>

\* lines 94-97: self.price_data[exchange][symbol] = ExchangePrice(...).
\* A running scan's record of the quotes that were the latest during it grows.
UpdateLine94(t) ==
    /\ At(t, "94")
    /\ price_data' = StoreLatest(price_data, threads[t].exchange, threads[t].symbol,
                                 threads[t].bid, threads[t].ask, threads[t].volume)
    /\ threads' = [threads EXCEPT
                      ![t].pc = "98",
                      !["scan"] = IF Scanning
                                  THEN [@ EXCEPT !.during = @ \cup
                                           {ExchangePrice(threads[t].exchange, threads[t].symbol,
                                                threads[t].bid, threads[t].ask, threads[t].volume)}]
                                  ELSE @]
    /\ UNCHANGED <<price_history, trading_fees, min_profit_threshold,
                   arbitrage_opportunities, last, result, log, issued,
                   telegram_bot, main, telegram, trading_bot, generator>>

\* line 98: if exchange not in self.price_history
UpdateLine98(t) ==
    /\ At(t, "98")
    /\ Goto(t, IF threads[t].exchange \in DOMAIN price_history THEN "100" ELSE "99")
    /\ UNCHANGED <<price_data, price_history, trading_fees, min_profit_threshold,
                   arbitrage_opportunities, last, result, log, issued,
                   telegram_bot, main, telegram, trading_bot, generator>>

\* line 99: self.price_history[exchange] = {}
UpdateLine99(t) ==
    /\ At(t, "99")
    /\ price_history' = DictPut(price_history, threads[t].exchange, EmptyDict)
    /\ Goto(t, "100")
    /\ UNCHANGED <<price_data, trading_fees, min_profit_threshold,
                   arbitrage_opportunities, last, result, log, issued,
                   telegram_bot, main, telegram, trading_bot, generator>>

\* line 100: if symbol not in self.price_history[exchange]
UpdateLine100(t) ==
    /\ At(t, "100")
    /\ Goto(t, IF threads[t].symbol \in DOMAIN price_history[threads[t].exchange]
               THEN "102" ELSE "101")
    /\ UNCHANGED <<price_data, price_history, trading_fees, min_profit_threshold,
                   arbitrage_opportunities, last, result, log, issued,
                   telegram_bot, main, telegram, trading_bot, generator>>

\* line 101: self.price_history[exchange][symbol] = []
UpdateLine101(t) ==
    /\ At(t, "101")
    /\ price_history' = DictPut(price_history, threads[t].exchange,
                                DictPut(price_history[threads[t].exchange],
                                        threads[t].symbol, <<>>))
    /\ Goto(t, "102")
    /\ UNCHANGED <<price_data, trading_fees, min_profit_threshold,
                   arbitrage_opportunities, last, result, log, issued,
                   telegram_bot, main, telegram, trading_bot, generator>>

\* self.price_history[exchange][symbol] raises KeyError
NoHistoryList(t) == threads[t].symbol \notin DOMAIN price_history[threads[t].exchange]

\* lines 102-105: self.price_history[exchange][symbol].append({...})
UpdateLine102(t) ==
    /\ At(t, "102")
    /\ IF NoHistoryList(t)
       THEN Return(t) /\ UNCHANGED price_history
       ELSE /\ price_history' =
                   DictPut(price_history, threads[t].exchange,
                           DictPut(price_history[threads[t].exchange], threads[t].symbol,
                                   Append(price_history[threads[t].exchange][threads[t].symbol],
                                          HistoryEntry(threads[t].bid, threads[t].ask,
                                                       threads[t].volume))))
            /\ Goto(t, "106")
    /\ UNCHANGED <<price_data, trading_fees, min_profit_threshold,
                   arbitrage_opportunities, last, result, log, issued,
                   telegram_bot, main, telegram, trading_bot, generator>>

\* line 106: if len(self.price_history[exchange][symbol]) > 1000
UpdateLine106(t) ==
    /\ At(t, "106")
    /\ IF NoHistoryList(t) THEN Return(t)
       ELSE IF Len(price_history[threads[t].exchange][threads[t].symbol]) > HistoryCapacity
            THEN Goto(t, "107")
            ELSE Return(t)
    /\ UNCHANGED <<price_data, price_history, trading_fees, min_profit_threshold,
                   arbitrage_opportunities, last, result, log, issued,
                   telegram_bot, main, telegram, trading_bot, generator>>

\* line 107: self.price_history[exchange][symbol] = self.price_history[exchange][symbol][-1000:]
UpdateLine107(t) ==
    /\ At(t, "107")
    /\ IF NoHistoryList(t) THEN UNCHANGED price_history
       ELSE price_history' =
                DictPut(price_history, threads[t].exchange,
                        DictPut(price_history[threads[t].exchange], threads[t].symbol,
                                Truncate(price_history[threads[t].exchange][threads[t].symbol])))
    /\ Return(t)
    /\ UNCHANGED <<price_data, trading_fees, min_profit_threshold,
                   arbitrage_opportunities, last, result, log, issued,
                   telegram_bot, main, telegram, trading_bot, generator>>

\* lines 111-114: find_cross_exchange_arbitrage(symbol) begins; exchange_prices = {}
ScanCall(symbol) ==
    /\ At("scan", "idle")
    /\ threads' = [threads EXCEPT !["scan"] =
                      [pc |-> "116", symbol |-> symbol, k |-> 1, exchange_prices |-> EmptyDict,
                       during |-> LatestQuotes(price_data), failed |-> FALSE]]
    /\ UNCHANGED <<price_data, price_history, trading_fees, min_profit_threshold,
                   arbitrage_opportunities, last, result, log, issued,
                   telegram_bot, main, telegram, trading_bot, generator>>

\* lines 115-116: the next exchange of self.exchanges and the test
\* exchange in self.price_data and symbol in self.price_data[exchange]
ScanLine116 ==
    /\ At("scan", "116")
    /\ threads' = [threads EXCEPT !["scan"] =
                      IF @.k > Len(exchanges) THEN [@ EXCEPT !.pc = "118"]
                      ELSE IF HasLatest(exchanges[@.k], @.symbol) THEN [@ EXCEPT !.pc = "117"]
                      ELSE [@ EXCEPT !.k = @ + 1]]
    /\ UNCHANGED <<price_data, price_history, trading_fees, min_profit_threshold,
                   arbitrage_opportunities, last, result, log, issued,
                   telegram_bot, main, telegram, trading_bot, generator>>

\* the scan returns
ScanReturn(scan, failed, opportunities) ==
    /\ threads' = [threads EXCEPT !["scan"] = [scan EXCEPT !.pc = "done", !.failed = failed]]
    /\ result' = opportunities
    /\ last' = [op |-> "find_cross_exchange_arbitrage", symbol |-> scan.symbol]

\* line 117: exchange_prices[exchange] = self.price_data[exchange][symbol].
\* When the symbol is no longer there the KeyError reaches the handler of
\* line 144 and the scan returns its empty list.
ScanLine117 ==
    /\ At("scan", "117")
    /\ IF HasLatest(exchanges[threads["scan"].k], threads["scan"].symbol)
       THEN /\ threads' = [threads EXCEPT !["scan"] =
                              [@ EXCEPT !.pc = "116", !.k = @ + 1,
                                        !.exchange_prices =
                                            DictPut(@, exchanges[threads["scan"].k],
                                                    <<Latest(exchanges[threads["scan"].k],
                                                             threads["scan"].symbol)>>)]]
            /\ UNCHANGED <<last, result>>
       ELSE ScanReturn(threads["scan"], TRUE, <<>>)
    /\ UNCHANGED <<price_data, price_history, trading_fees, min_profit_threshold,
                   arbitrage_opportunities, log, issued,
                   telegram_bot, main, telegram, trading_bot, generator>>

\* lines 118-146: the loops over the local exchange_prices
ScanLine118 ==
    /\ At("scan", "118")
    /\ ScanReturn(threads["scan"], FALSE,
                  CrossExchangeArbitrage(threads["scan"].exchange_prices, trading_fees,
                                         min_profit_threshold, threads["scan"].symbol))
    /\ UNCHANGED <<price_data, price_history, trading_fees, min_profit_threshold,
                   arbitrage_opportunities, log, issued,
                   telegram_bot, main, telegram, trading_bot, generator>>

\* Bybit has quoted BTC-USDT often enough to fill its history
BybitRun == [i \in 1..HistoryCapacity |-> Call("Bybit", BTC_USDT, Q(R(101), R(102), R(1)))]

ConcInputs ==
    { <<"OKX", BTC_USDT, Q(R(99), R(100), R(1))>>,
      <<"OKX", ETH_USDT, Q(R(3), R(4), R(1))>>,
      <<"Binance", BTC_USDT, Q(R(101), R(102), R(1))>>,
      <<"Bybit", BTC_USDT, Q(R(105), R(106), R(1))>> }

InitConc ==
    /\ log = BybitRun
    /\ price_data = DataAfter(log, Len(log))
    /\ price_history = HistoryAfter(log, Len(log))
    /\ trading_fees = InitTradingFees
    /\ min_profit_threshold = InitMinProfitThreshold
    /\ arbitrage_opportunities = <<>>
    /\ last = [op |-> "__init__"]
    /\ result = <<>>
    /\ issued = {}
    /\ threads = NoCalls
    /\ OtherPrograms

NextConc ==
    \/ \E t \in Threads, in \in ConcInputs :
           /\ Len(log) < Len(BybitRun) + MaxConcCalls
           /\ UpdateCall(t, in[1], in[2], in[3].bid, in[3].ask, in[3].volume)
    \/ \E t \in Threads : UpdateLine92(t)
    \/ \E t \in Threads : UpdateLine93(t)
    \/ \E t \in Threads : UpdateLine94(t)
    \/ \E t \in Threads : UpdateLine98(t)
    \/ \E t \in Threads : UpdateLine99(t)
    \/ \E t \in Threads : UpdateLine100(t)
    \/ \E t \in Threads : UpdateLine101(t)
    \/ \E t \in Threads : UpdateLine102(t)
    \/ \E t \in Threads : UpdateLine106(t)
    \/ \E t \in Threads : UpdateLine107(t)
    \/ ScanCall(BTC_USDT)
    \/ ScanLine116
    \/ ScanLine117
    \/ ScanLine118

SpecConc == InitConc /\ [][NextConc]_vars

\* the call's quote is the latest of its key and the last entry of its history
TookEffect(c) ==
    /\ HasLatest(c.exchange, c.symbol)
    /\ Latest(c.exchange, c.symbol) =
           ExchangePrice(c.exchange, c.symbol, c.bid, c.ask, c.volume)
    /\ History(c.exchange, c.symbol) # <<>>
    /\ History(c.exchange, c.symbol)[Len(History(c.exchange, c.symbol))] =
           HistoryEntry(c.bid, c.ask, c.volume)

SameKey(c, d) == c.exchange = d.exchange /\ c.symbol = d.symbol

\* no call has named the key
Untouched(exchange, symbol) ==
    \A j \in 1..Len(log) : ~(log[j].exchange = exchange /\ log[j].symbol = symbol)

\* C15: update_price_data calls for different (exchange, symbol) keys that
\* interleave at any statement boundary all take effect: once the calls
\* have returned, the quote of every call whose key no other call has is
\* the latest of its key and the one entry of its history, and a key that
\* no call has named has no quote and no history.
C15_ConcurrentUpdatesBothTakeEffect ==
    (\A t \in Threads : At(t, "idle")) =>
        /\ \A i \in 1..Len(log) :
               (\A j \in 1..Len(log) : j # i => ~SameKey(log[i], log[j])) =>
                   /\ TookEffect(log[i])
                   /\ Len(History(log[i].exchange, log[i].symbol)) = 1
        /\ \A e \in AllSources, s \in {BTC_USDT, ETH_USDT} :
               Untouched(e, s) => (~HasLatest(e, s) /\ History(e, s) = <<>>)

\* the opportunity is computed from two quotes that were the latest of
\* their keys at some moment during the scan
FromLatestQuotes(o, during) ==
    \E buy_info, sell_info \in during :
        /\ buy_info.symbol = o.symbol /\ sell_info.symbol = o.symbol
        /\ buy_info.exchange = o.buy_exchange /\ sell_info.exchange = o.sell_exchange
        /\ o.buy_price = buy_info.ask_price /\ o.sell_price = sell_info.bid_price
        /\ o.volume = RMin(buy_info.volume, sell_info.volume)
        /\ o.profit_percent =
               CrossProfitPercent(
                   NetSellPrice(sell_info.bid_price, FeeOf(trading_fees, o.sell_exchange)),
                   NetBuyPrice(buy_info.ask_price, FeeOf(trading_fees, o.buy_exchange)))

\* C16: a scan that runs while update_price_data calls run never fails, and
\* every opportunity it returns is computed from quotes each of which was
\* the latest of its key at some moment during the scan.
C16_ConcurrentScanSound ==
    At("scan", "done") =>
        /\ ~threads["scan"].failed
        /\ \A i \in 1..Len(result) : FromLatestQuotes(result[i], threads["scan"].during)

\* the book with the quotes of one source only
OnlySource(pd, exchange) == [e \in (DOMAIN pd) \cap {exchange} |-> pd[e]]

\* the opportunity is built from the latest quotes of the source for
\* A-base, B-base and the cross instrument A-B
BuiltFromThreeQuotes(o, exchange) ==
    \E a, b \in {"BTC", "ETH"} :
        /\ a # b
        /\ o.symbol = <<a, b, "USDT">>
        /\ HasLatest(exchange, <<a, "USDT">>) /\ HasLatest(exchange, <<b, "USDT">>)
        /\ HasLatest(exchange, <<a, b>>)
        /\ o.buy_price = Latest(exchange, <<a, b>>).ask_price
        /\ o.sell_price = RDiv(Latest(exchange, <<a, "USDT">>).bid_price,
                               Latest(exchange, <<b, "USDT">>).ask_price)
        /\ o.profit_percent =
               RMul(RDiv(RSub(o.sell_price, o.buy_price), o.buy_price), R(100))

\* C21: every triangular opportunity is built from three quotes of one
\* single source: its buy source is its sell source, its prices are that
\* source's quotes, and the scan returns what it returns on the book that
\* holds the quotes of that source alone.
C21_TriangularSingleSource ==
    last.op = "find_triangular_arbitrage" =>
        /\ \A i \in 1..Len(result) :
               /\ result[i].buy_exchange = result[i].sell_exchange
               /\ BuiltFromThreeQuotes(result[i], result[i].buy_exchange)
        /\ result = TriangularArbitrage(OnlySource(price_data, "OKX"),
                                        min_profit_threshold, "USDT")

\* an opportunity was returned while another source quotes the cross
\* instrument at a different ask
C21_Witness ==
    /\ last.op = "find_triangular_arbitrage"
    /\ Len(result) >= 1
    /\ HasLatest("Binance", ETH_BTC) /\ HasLatest("OKX", ETH_BTC)
    /\ Latest("Binance", ETH_BTC).ask_price # Latest("OKX", ETH_BTC).ask_price

-----------------------------------------------------------------------------
(* The four scans side by side: a book in which OKX has a full window of   *)
(* history for BTC-USDT and ETH-USDT, further updates with volumes that    *)
(* differ, and each of the four scans                                      *)

find_future_spot_arbitrage(symbol) ==
    /\ result' = FutureSpotArbitrage(price_data, min_profit_threshold, symbol)
    /\ last' = [op |-> "find_future_spot_arbitrage", symbol |-> symbol]
    /\ UNCHANGED <<price_data, price_history, trading_fees, min_profit_threshold,
                   arbitrage_opportunities, log, issued, threads,
                   telegram_bot, main, telegram, trading_bot, generator>>

MaxKindUpdates == 3

\* the ratio of the mids falls from 7 to 7/2 and the current ratio to 5/2
KindsRun ==
    StatRun("OKX", Q(R(7), R(7), R(1)), Q(R(5), R(9), R(4)),
                   Q(R(1), R(1), R(1)), Q(R(2), R(2), R(2)))

KindInputs ==
    { <<"OKX", ETH_BTC, Q(Frac(1, 25), Frac(1, 20), R(5))>>,
      <<"OKX", BTC_USDT_SWAP, Q(R(10), R(11), R(3))>>,
      <<"OKX", BTC_USDT_SWAP, Q(R(6), R(7), R(3))>>,
      <<"Binance", BTC_USDT, Q(R(12), R(13), R(6))>>,
      <<"Binance", BTC_USDT, Q(R(1), R(1), R(1))>> }

InitKinds ==
    /\ log = KindsRun
    /\ price_data = DataAfter(log, Len(log))
    /\ price_history = HistoryAfter(log, Len(log))
    /\ trading_fees = InitTradingFees
    /\ min_profit_threshold = InitMinProfitThreshold
    /\ arbitrage_opportunities = <<>>
    /\ last = [op |-> "update_price_data", exchange |-> log[Len(log)].exchange,
               symbol |-> log[Len(log)].symbol, bid |-> log[Len(log)].bid,
               ask |-> log[Len(log)].ask, volume |-> log[Len(log)].volume]
    /\ result = <<>>
    /\ issued = {}
    /\ threads = NoCalls
    /\ OtherPrograms

NextKinds ==
    \/ \E in \in KindInputs :
           /\ Len(log) < Len(KindsRun) + MaxKindUpdates
           /\ update_price_data(in[1], in[2], in[3].bid, in[3].ask, in[3].volume)
    \/ find_cross_exchange_arbitrage(BTC_USDT)
    \/ find_triangular_arbitrage("USDT")
    \/ find_statistical_arbitrage
    \/ find_future_spot_arbitrage(BTC_USDT)

SpecKinds == InitKinds /\ [][NextKinds]_vars

\* the calls that return a list of opportunities
ScanOps ==
    {"find_cross_exchange_arbitrage", "find_triangular_arbitrage",
     "find_statistical_arbitrage", "find_future_spot_arbitrage"}

\* 0 <= confidence <= 1; a confidence kept as a square root lies in [0, 1]
\* exactly when its radicand does
ConfidenceInUnitInterval(c) ==
    IF "sqrt" \in DOMAIN c
    THEN RGe(c.sqrt, R(0)) /\ RLe(c.sqrt, R(1))
    ELSE RGe(c, R(0)) /\ RLe(c, R(1))

\* v is the volume of one of the source's latest quotes of the symbols and
\* none of them has a smaller volume
IsLeastVolume(v, exchange, symbols) ==
    /\ \E k \in 1..Len(symbols) : Latest(exchange, symbols[k]).volume = v
    /\ \A k \in 1..Len(symbols) : RLe(v, Latest(exchange, symbols[k]).volume)

\* the volume is the minimum of the volumes of the quotes whose prices the
\* opportunity uses
IsContributingVolume(o) ==
    IF o.type = "cross_exchange"
    THEN /\ o.volume \in {Latest(o.buy_exchange, o.symbol).volume,
                           Latest(o.sell_exchange, o.symbol).volume}
         /\ RLe(o.volume, Latest(o.buy_exchange, o.symbol).volume)
         /\ RLe(o.volume, Latest(o.sell_exchange, o.symbol).volume)
    ELSE IF o.type = "triangular"
    THEN IsLeastVolume(o.volume, o.buy_exchange,
                       << <<o.symbol[1], "USDT">>, <<o.symbol[2], "USDT">>,
                          <<o.symbol[1], o.symbol[2]>> >>)
    ELSE IsLeastVolume(o.volume, o.buy_exchange, o.symbol)

\* C22: every opportunity returned by any of the four scans has a
\* confidence in [0, 1] and a volume equal to the minimum of the volumes of
\* the quotes it was computed from.
C22_ConfidenceAndVolume ==
    last.op \in ScanOps =>
        \A i \in 1..Len(result) :
            /\ ConfidenceInUnitInterval(result[i].confidence)
            /\ IsContributingVolume(result[i])

\* a statistical opportunity was returned with the volume 2, the smaller of
\* the volumes 4 and 2 of its two quotes, and a confidence below the cap 0.9
C22_Witness ==
    /\ last.op = "find_statistical_arbitrage"
    /\ Len(result) = 1
    /\ result[1].volume = R(2)
    /\ Latest("OKX", BTC_USDT).volume = R(4)
    /\ "sqrt" \in DOMAIN result[1].confidence

\* C23: in a book in which every quote has ask >= bid > 0, every
\* cross_exchange, triangular or future_spot opportunity has a sell_price
\* strictly greater than its buy_price.
C23_SellAboveBuy ==
    (last.op \in ScanOps /\ LogValid) =>
        \A i \in 1..Len(result) :
            result[i].type \in {"cross_exchange", "triangular", "future_spot"} =>
                RGt(result[i].sell_price, result[i].buy_price)

-----------------------------------------------------------------------------
(* Ingest of quotes as a feed may deliver them: numbers, or values that    *)
(* are not numbers                                                         *)

MaxIngestUpdates == 3

IngestQuotes == { Q(R(1), R(2), R(1)), Q(R(3), R(4), R(2)), Q(NoneValue, NoneValue, R(1)) }

IngestInputs ==
    { <<e, s, q>> : e \in {"OKX", "Binance"}, s \in {BTC_USDT, ETH_USDT}, q \in IngestQuotes }

NextIngest ==
    \E in \in IngestInputs :
        /\ Len(log) < MaxIngestUpdates
        /\ update_price_data(in[1], in[2], in[3].bid, in[3].ask, in[3].volume)

SpecIngest == Init /\ [][NextIngest]_vars

\* C24: in every state, every (exchange, symbol) key that has a latest
\* quote has a non-empty history whose last entry has the bid, ask and
\* volume of the latest quote, also after a call that failed part-way with
\* its error swallowed.
C24_LatestMatchesHistory ==
    \A e \in AllSources, s \in {BTC_USDT, ETH_USDT} :
        HasLatest(e, s) =>
            /\ History(e, s) # <<>>
            /\ History(e, s)[Len(History(e, s))].bid = Latest(e, s).bid_price
            /\ History(e, s)[Len(History(e, s))].ask = Latest(e, s).ask_price
            /\ History(e, s)[Len(History(e, s))].volume = Latest(e, s).volume


-----------------------------------------------------------------------------
(* main() and the TelegramBotHandler of phase3_advanced_arbitrage_final:   *)
(* two asyncio tasks, the main loop and the polling task, which give way   *)
(* to each other only where they await                                     *)

MaxTelegramUpdates == 2

MaxIterations == 2

\* limit=10 of get_updates, scaled down
PollLimit == 2

AnalyzerState == <<price_data, price_history, trading_fees, min_profit_threshold,
                   arbitrage_opportunities, last, result, log, issued, threads>>

\* a variant that reports a running bot as soon as the Bot object exists
IsRunningOnceCreated(failure) == failure # "Bot"

\* line 366: self.is_running = True is reached when no earlier step raised
IsRunningAfter(failure) == failure = "none"

\* lines 358-369: initialize, where failure names the step that raises:
\* Bot(...), delete_webhook, get_me, or none.  The closing send_message
\* swallows its own error.
initialize(handler, failure) ==
    [handler EXCEPT !.bot = failure # "Bot",
                    !.connected = failure = "none",
                    !.is_running = IsRunningAfter(failure)]

\* lines 644-646: await telegram_bot.initialize(), then the polling task is
\* created and signal_count = 0
MainInitialize(failure) ==
    /\ main.pc = "initialize"
    /\ telegram_bot' = [initialize(telegram_bot, failure) EXCEPT !.polling = "while"]
    /\ main' = [main EXCEPT !.pc = "loop", !.signal_count = 0]
    /\ UNCHANGED <<AnalyzerState, telegram, trading_bot, generator>>

\* what a user can send to the bot: a command or a button press
UpdateKinds ==
    { [kind |-> "message", data |-> "/stop"],
      [kind |-> "message", data |-> "/resume"],
      [kind |-> "callback_query", data |-> "stop"] }

\* the Telegram server gives every update the next update_id; what is sent
\* before the bot starts is dropped (drop_pending_updates) and what is sent
\* while the bot is not polling is never asked for
UserSends(u) ==
    /\ telegram_bot.is_running
    /\ Len(telegram) < MaxTelegramUpdates
    /\ telegram' = Append(telegram, [update_id |-> Len(telegram) + 1,
                                     kind |-> u.kind, data |-> u.data])
    /\ UNCHANGED <<AnalyzerState, telegram_bot, main, trading_bot, generator>>

\* a variant that asks again for the update handled last
OffsetRepeats(last_update_id) == last_update_id

\* line 376: offset=self.last_update_id + 1
Offset(last_update_id) == last_update_id + 1

\* Bot.get_updates(offset, limit): the first `limit` updates the server
\* holds whose update_id is at least offset
GetUpdates(held, offset, limit) ==
    SubSeq(SelectSeq(held, LAMBDA u : u.update_id >= offset), 1,
           IF Len(SelectSeq(held, LAMBDA u : u.update_id >= offset)) < limit
           THEN Len(SelectSeq(held, LAMBDA u : u.update_id >= offset)) ELSE limit)

\* the batch get_updates returned is kept, and the loop goes on with it or,
\* when it is empty, sleeps and tests is_running again (lines 379-383)
PollingBatch(handler, offset, batch) ==
    [handler EXCEPT !.request = <<[offset |-> offset,
                                   last_update_id |-> handler.last_update_id]>>,
                    !.updates = batch,
                    !.polling = IF batch = <<>> THEN "while" ELSE "for"]

\* lines 373-378 and 384-386: while self.is_running, and with no await in
\* between the get_updates request, which either returns a batch or raises;
\* after a raise the task sleeps and tests is_running again
PollingGetUpdates(raises) ==
    /\ telegram_bot.polling = "while"
    /\ telegram_bot' =
           IF ~telegram_bot.is_running
           THEN [telegram_bot EXCEPT !.polling = "returned"]
           ELSE IF raises
           THEN [telegram_bot EXCEPT
                    !.request = <<[offset |-> Offset(telegram_bot.last_update_id),
                                   last_update_id |-> telegram_bot.last_update_id]>>]
           ELSE PollingBatch(telegram_bot, Offset(telegram_bot.last_update_id),
                             GetUpdates(telegram, Offset(telegram_bot.last_update_id),
                                        PollLimit))
    /\ UNCHANGED <<AnalyzerState, main, telegram, trading_bot, generator>>

\* lines 390-403: the handler process_update reaches.  A command is looked
\* up in command_handlers; a button press is answered first, and when the
\* answer raises no handler is called.
HandlerOf(update, failure) ==
    IF update.kind = "message"
    THEN CASE update.data = "/stop"   -> "stop_command"
           [] update.data = "/resume" -> "resume_command"
           [] OTHER                   -> "none"
    ELSE IF failure = "answer" THEN "none"
    ELSE CASE update.data = "stop"   -> "stop_command"
           [] update.data = "resume" -> "resume_command"
           [] OTHER                  -> "none"

\* line 584 and line 595: the first statement of stop_command and of
\* resume_command; a reply that raises afterwards changes nothing
SystemRunningAfter(system_running, handler) ==
    CASE handler = "stop_command"   -> FALSE
      [] handler = "resume_command" -> TRUE
      [] OTHER                      -> system_running

\* lines 388-406: process_update; whatever raises is swallowed there or in
\* the handler.  The entry added to handled keeps the last_update_id the
\* handler finds.
process_update(handler, update, failure) ==
    [handler EXCEPT
        !.system_running = SystemRunningAfter(@, HandlerOf(update, failure)),
        !.handled = Append(@, [update_id |-> update.update_id,
                               handler |-> HandlerOf(update, failure),
                               last_update_id |-> handler.last_update_id])]

\* lines 379-383: one pass of `for update in updates`: last_update_id is
\* set, then process_update is awaited; after the last update of the batch
\* the task tests is_running again
PollingFor(failure) ==
    /\ telegram_bot.polling = "for"
    /\ failure = "answer" => Head(telegram_bot.updates).kind = "callback_query"
    /\ telegram_bot' =
           [process_update([telegram_bot EXCEPT
                               !.last_update_id = Head(telegram_bot.updates).update_id],
                           Head(telegram_bot.updates), failure)
               EXCEPT !.updates = Tail(@),
                      !.polling = IF Tail(telegram_bot.updates) = <<>> THEN "while"
                                  ELSE "for"]
    /\ UNCHANGED <<AnalyzerState, main, telegram, trading_bot, generator>>

\* the quotes one iteration of the main loop writes into the book
\* (lines 660-692), a few of the draws of its random prices
Ticks ==
    { << Call("OKX", BTC_USDT, Q(R(99), R(100), R(1))),
         Call("Binance", BTC_USDT, Q(R(101), R(102), R(1))) >>,
      << Call("OKX", BTC_USDT, Q(R(99), R(100), R(1))),
         Call("Binance", BTC_USDT, Q(R(102), R(103), R(1))) >> }

\* a variant that counts a signal whether or not the system is active
CountsWhileStopped(arbitrage_signal, system_running) == arbitrage_signal # <<>>

\* line 695: if arbitrage_signal and telegram_bot.system_running
Counts(arbitrage_signal, system_running) == arbitrage_signal # <<>> /\ system_running

\* a variant that alerts for ARBITRAGE_ULTRA too
AlertsFromUltra(grade) ==
    grade \in {"ARBITRAGE_GODLIKE", "ARBITRAGE_LEGENDARY", "ARBITRAGE_MEGA", "ARBITRAGE_ULTRA"}

\* line 698: the grades an alert is sent for
Alerts(grade) == grade \in {"ARBITRAGE_GODLIKE", "ARBITRAGE_LEGENDARY", "ARBITRAGE_MEGA"}

\* lines 695-699 with send_message (lines 408-411): the signal is counted,
\* and for the high grades send_arbitrage_alert is awaited (alert), which
\* hands the message to bot.send_message when the bot exists
MainCounted(m, signal, handler) ==
    [m EXCEPT !.signal_count = @ + 1,
              !.iterations = @ + 1,
              !.alerts = IF Alerts(signal.grade) /\ handler.bot
                         THEN Append(@, [grade |-> signal.grade,
                                         profit_percent |-> signal.profit_percent,
                                         iteration |-> m.iterations + 1])
                         ELSE @,
              !.events = Append(@, [outcome |-> "counted", grade |-> signal.grade,
                                    profit_percent |-> signal.profit_percent,
                                    alert |-> Alerts(signal.grade)])]

\* the iteration found nothing, or the system is stopped: straight to the sleep
MainSkipped(m, arbitrage_signal, handler) ==
    [m EXCEPT !.iterations = @ + 1,
              !.events = Append(@, [outcome |-> IF arbitrage_signal = <<>> THEN "none"
                                                ELSE "gated",
                                    grade |-> IF arbitrage_signal = <<>> THEN "none"
                                              ELSE arbitrage_signal[1].grade,
                                    profit_percent |-> IF arbitrage_signal = <<>> THEN R(0)
                                                       ELSE arbitrage_signal[1].profit_percent,
                                    alert |-> FALSE])]

MainAfter(m, arbitrage_signal, handler) ==
    IF Counts(arbitrage_signal, handler.system_running)
    THEN MainCounted(m, arbitrage_signal[1], handler)
    ELSE MainSkipped(m, arbitrage_signal, handler)

\* lines 648-734: one iteration of the main loop: the quotes are written,
\* generate_arbitrage_signal runs and the signal is gated, all before the
\* first await; the polling task runs while main awaits the alert and the
\* sleep that ends the iteration
MainIteration(tick) ==
    /\ main.pc = "loop"
    /\ main.iterations < MaxIterations
    /\ log' = log \o tick
    /\ price_data' = DataAfter(log', Len(log'))
    /\ price_history' = HistoryAfter(log', Len(log'))
    /\ last' = [op |-> "main"]
    /\ \E all_opportunities \in {AllOpportunities(price_data', price_history', trading_fees,
                                                  min_profit_threshold)} :
           SignalFrom(all_opportunities)
    /\ main' = MainAfter(main, result', telegram_bot)
    /\ UNCHANGED <<trading_fees, min_profit_threshold, threads, telegram_bot, telegram,
                   trading_bot, generator>>

\* lines 736-740: a KeyboardInterrupt raised while the body of the loop
\* runs ends the loop and the polling task
MainKeyboardInterrupt ==
    /\ main.pc = "loop"
    /\ telegram_bot' = [telegram_bot EXCEPT !.is_running = FALSE, !.polling = "cancelled"]
    /\ main' = [main EXCEPT !.pc = "stopped"]
    /\ UNCHANGED <<AnalyzerState, telegram, trading_bot, generator>>

NextMain ==
    \/ \E failure \in {"none", "Bot", "delete_webhook", "get_me"} : MainInitialize(failure)
    \/ \E u \in UpdateKinds : UserSends(u)
    \/ \E raises \in BOOLEAN : PollingGetUpdates(raises)
    \/ \E failure \in {"none", "answer", "reply"} : PollingFor(failure)
    \/ \E tick \in Ticks : MainIteration(tick)
    \/ MainKeyboardInterrupt

SpecMain == Init /\ [][NextMain]_vars


-----------------------------------------------------------------------------
(* Claims on the Telegram bot and the main loop                            *)

\* the step runs the handler named, for one more update
Handles(handler) ==
    /\ Len(telegram_bot'.handled) = Len(telegram_bot.handled) + 1
    /\ telegram_bot'.handled[Len(telegram_bot'.handled)].handler = handler

\* the step is an iteration of the main loop whose scan found a signal
FoundSignal == main'.iterations = main.iterations + 1 /\ result' # <<>>

HighGrades == {"ARBITRAGE_GODLIKE", "ARBITRAGE_LEGENDARY", "ARBITRAGE_MEGA"}

\* C25: system_running is true until a handler has run; stop_command, from
\* the command or the button, leaves it false and resume_command leaves it
\* true, whatever it was; in every interleaving of the polling task and the
\* main loop, signal_count grows and an alert is sent only in a step that
\* starts with system_running true; and an iteration that finds a signal
\* while system_running is true, so also after a /resume, counts it and,
\* for a high grade, sends the alert.
C25_StopResumeGating ==
    /\ [](telegram_bot.handled = <<>> => telegram_bot.system_running)
    /\ [][/\ Handles("stop_command") => ~telegram_bot'.system_running
          /\ Handles("resume_command") => telegram_bot'.system_running
          /\ main'.signal_count # main.signal_count => telegram_bot.system_running
          /\ main'.alerts # main.alerts => telegram_bot.system_running
          /\ (FoundSignal /\ telegram_bot.system_running) =>
                 /\ main'.signal_count = main.signal_count + 1
                 /\ (result'[1].grade \in HighGrades /\ telegram_bot.bot) =>
                        Len(main'.alerts) = Len(main.alerts) + 1
          /\ (FoundSignal /\ ~telegram_bot.system_running) =>
                 /\ main'.signal_count = main.signal_count
                 /\ main'.alerts = main.alerts]_vars

\* a signal was found and not counted while the system was stopped, and a
\* later one, after the resume, was counted and alerted
C25_Witness ==
    /\ Len(main.events) = 2
    /\ main.events[1].outcome = "gated"
    /\ main.events[2].outcome = "counted"
    /\ Len(main.alerts) = 1
    /\ \E i \in 1..Len(telegram_bot.handled) :
           telegram_bot.handled[i].handler = "resume_command"

\* C26: every alert the main loop sent was for a signal of grade
\* ARBITRAGE_GODLIKE, ARBITRAGE_LEGENDARY or ARBITRAGE_MEGA and of a profit
\* percentage of at least 1.0, send_arbitrage_alert is called only for such
\* a signal, and no two alerts belong to the same iteration.
C26_AlertOnlyHighGrades ==
    /\ \A i \in 1..Len(main.alerts) :
           /\ main.alerts[i].grade \in HighGrades
           /\ RGe(main.alerts[i].profit_percent, R(1))
           /\ main.alerts[i].iteration <= main.iterations
           /\ \A j \in 1..Len(main.alerts) :
                  i < j => main.alerts[i].iteration < main.alerts[j].iteration
    /\ \A i \in 1..Len(main.events) :
           main.events[i].alert =>
               /\ main.events[i].outcome = "counted"
               /\ main.events[i].grade \in HighGrades
               /\ RGe(main.events[i].profit_percent, R(1))

\* an alert was sent for one iteration, and another iteration counted a
\* signal of a lower grade without an alert
C26_Witness ==
    /\ Len(main.alerts) = 1
    /\ \E i \in 1..Len(main.events) :
           /\ main.events[i].outcome = "counted"
           /\ main.events[i].grade = "ARBITRAGE_ULTRA"

\* the number of updates the server holds up to the update_id given
HeldUpTo(update_id) == Len(SelectSeq(telegram, LAMBDA u : u.update_id <= update_id))

\* C27: every get_updates request uses offset last_update_id + 1; the
\* updates handled so far are the first updates the server delivered, each
\* once and in order; the handler of an update found last_update_id
\* already set to its id; within a batch the updates still to be handled
\* are the ones delivered next; and between two batches every update up to
\* last_update_id has been handled, whether or not its handling failed.
C27_EachUpdateOnceInOrder ==
    /\ telegram_bot.request # <<>> =>
           telegram_bot.request[1].offset = telegram_bot.request[1].last_update_id + 1
    /\ Len(telegram_bot.handled) <= Len(telegram)
    /\ \A i \in 1..Len(telegram_bot.handled) :
           /\ telegram_bot.handled[i].update_id = telegram[i].update_id
           /\ telegram_bot.handled[i].last_update_id = telegram_bot.handled[i].update_id
    /\ telegram_bot.polling = "for" =>
           /\ telegram_bot.updates # <<>>
           /\ \A i \in 1..Len(telegram_bot.updates) :
                  telegram_bot.updates[i].update_id =
                      telegram[Len(telegram_bot.handled) + i].update_id
    /\ telegram_bot.polling \in {"while", "returned"} =>
           Len(telegram_bot.handled) = HeldUpTo(telegram_bot.last_update_id)

\* the first update of a batch of two was a button press whose answer
\* raised, and the second update of that batch was handled all the same
C27_Witness ==
    /\ Len(telegram_bot.handled) = 2
    /\ telegram[1].kind = "callback_query"
    /\ telegram_bot.handled[1].handler = "none"
    /\ telegram_bot.handled[2].handler # "none"
    /\ telegram_bot.request # <<>>
    /\ telegram_bot.request[1].offset = 1

\* C28: is_running implies that the Bot object exists and that get_me
\* succeeded; once initialize has failed is_running is false, the polling
\* task has made no get_updates request and is before its loop test,
\* returned or cancelled, and main() is in its loop, where every iteration
\* so far has run its scan and every signal found while active was counted.
C28_RunningOnlyWhenConnected ==
    /\ telegram_bot.is_running => (telegram_bot.bot /\ telegram_bot.connected)
    /\ (main.pc # "initialize" /\ ~telegram_bot.connected) =>
           /\ ~telegram_bot.is_running
           /\ telegram_bot.request = <<>>
           /\ telegram_bot.polling \in {"while", "returned", "cancelled"}
           /\ main.pc \in {"loop", "stopped"}
           /\ Len(main.events) = main.iterations
           /\ main.signal_count =
                  Len(SelectSeq(main.events, LAMBDA e : e.outcome = "counted"))

\* initialize failed after the Bot object was created, the polling task
\* returned, and the main loop has run and counted a signal
C28_Witness ==
    /\ telegram_bot.bot
    /\ ~telegram_bot.connected
    /\ telegram_bot.polling = "returned"
    /\ main.iterations >= 1
    /\ main.signal_count >= 1


-----------------------------------------------------------------------------
(* PerfectTradingBot of phase1_perfect_fixed and PerfectSignalGenerator of *)
(* phase1_perfect_leverage_fixed: their counters.  The random draws, the   *)
(* calls that can raise and the verdict of the risk manager are inputs.    *)

MaxCycles == 3

MaxGenerated == 3

\* lines 313-335, and again lines 86-108: the counter a strength is counted in
TierCounter(strength) ==
    IF RGt(strength, Frac(99, 100)) THEN "godlike_signal_count"
    ELSE IF RGt(strength, Frac(97, 100)) THEN "legendary_signal_count"
    ELSE IF RGt(strength, Frac(94, 100)) THEN "mega_signal_count"
    ELSE IF RGt(strength, Frac(85, 100)) THEN "ultra_strong_signal_count"
    ELSE IF RGt(strength, Frac(75, 100)) THEN "strong_signal_count"
    ELSE "none"

CountTier(bot, strength) ==
    IF TierCounter(strength) = "none" THEN bot
    ELSE [bot EXCEPT ![TierCounter(strength)] = @ + 1]

\* lines 168 and 171 with a draw of 0.03: final_strength and confidence
FinalStrength(base_strength, perfect_power) == RMin(R(1), RMul(base_strength, perfect_power))

Confidence(final_strength) ==
    RMin(R(1), RAdd(RMul(final_strength, Frac(95, 100)), Frac(3, 100)))

\* lines 136-199: _create_perfect_signal.  When get_current_price raises
\* (line 140) the handler of line 189 returns the emergency signal and no counter has
\* changed; otherwise signal_count grows and _process_signal_tiers counts
\* the strength (lines 177-178).
create_perfect_signal(bot, d) ==
    IF d.raises
    THEN [bot |-> bot, strength |-> d.emergency, confidence |-> Frac(85, 100)]
    ELSE [bot |-> CountTier([bot EXCEPT !.signal_count = @ + 1],
                            FinalStrength(d.base_strength, d.perfect_power)),
          strength |-> FinalStrength(d.base_strength, d.perfect_power),
          confidence |-> Confidence(FinalStrength(d.base_strength, d.perfect_power))]

\* lines 431-452: perfect_execute_trade
perfect_execute_trade(bot, strength, allowed) ==
    IF RLt(strength, Frac(60, 100)) \/ bot.shutdown_flag \/ ~allowed THEN bot
    ELSE [bot EXCEPT !.successful_trades = @ + 1,
                     !.win_rate = Frac((bot.successful_trades + 1) * 100,
                                       IF bot.trading_opportunities > 1
                                       THEN bot.trading_opportunities ELSE 1)]

\* lines 458-494 and 515-517: basic_analysis, which counts a signal unless
\* get_current_price raises, and the trade on its signal
BasicCycle(bot, d) ==
    IF d.price_raises THEN bot
    ELSE perfect_execute_trade([bot EXCEPT !.signal_count = @ + 1], d.basic_strength,
                               d.allowed)

\* lines 417-423: a trading opportunity is counted
CountOpportunity(bot, strength, confidence) ==
    IF RGt(strength, Frac(60, 100)) /\ RGt(confidence, Frac(55, 100))
    THEN [bot EXCEPT !.trading_opportunities = @ + 1]
    ELSE bot

\* lines 396-429 and 508-517: perfect_analysis on the signal created, then
\* the trade; when the analysis returns None or a weak signal the cycle
\* goes on to basic_analysis
AdvancedCycle(created, d) ==
    IF d.price_raises THEN BasicCycle(created.bot, d)
    ELSE IF RGt(created.strength, Frac(60, 100))
         THEN perfect_execute_trade(CountOpportunity(created.bot, created.strength,
                                                     created.confidence),
                                    created.strength, d.allowed)
         ELSE BasicCycle(CountOpportunity(created.bot, created.strength,
                                          created.confidence), d)

\* the draws of one call: whether get_current_price raises in
\* _create_perfect_signal or afterwards, the random strengths and boosts,
\* and whether the risk check allows the trade
Draws ==
    [raises : BOOLEAN, price_raises : BOOLEAN, allowed : BOOLEAN,
     base_strength : {Frac(80, 100), Frac(95, 100)},
     perfect_power : {Frac(21, 10), R(3)},
     emergency : {Frac(90, 100), Frac(96, 100), R(1)},
     basic_strength : {Frac(70, 100), Frac(90, 100)}]

\* lines 496-525: run_perfect_cycle.  A cycle that comes too soon after
\* the last one (line 503) changes nothing and is left out.
run_perfect_cycle(d) ==
    /\ trading_bot.cycles < MaxCycles
    /\ trading_bot' =
           IF trading_bot.shutdown_flag THEN [trading_bot EXCEPT !.cycles = @ + 1]
           ELSE IF trading_bot.advanced_mode
                THEN [AdvancedCycle(create_perfect_signal(trading_bot, d), d)
                          EXCEPT !.cycles = @ + 1]
                ELSE [BasicCycle(trading_bot, d) EXCEPT !.cycles = @ + 1]
    /\ UNCHANGED <<AnalyzerState, telegram_bot, main, telegram, generator>>

\* lines 81-111: on_perfect_signal_trigger, the orderbook callback of the
\* WebSocket client, registered in advanced mode: it creates a signal and
\* then counts its strength
on_perfect_signal_trigger(d) ==
    /\ trading_bot.advanced_mode
    /\ trading_bot.cycles < MaxCycles
    /\ trading_bot' =
           IF trading_bot.shutdown_flag THEN [trading_bot EXCEPT !.cycles = @ + 1]
           ELSE [CountTier(create_perfect_signal(trading_bot, d).bot,
                           create_perfect_signal(trading_bot, d).strength)
                     EXCEPT !.cycles = @ + 1]
    /\ UNCHANGED <<AnalyzerState, telegram_bot, main, telegram, generator>>

\* lines 559-562: shutdown
shutdown ==
    /\ ~trading_bot.shutdown_flag
    /\ trading_bot' = [trading_bot EXCEPT !.shutdown_flag = TRUE]
    /\ UNCHANGED <<AnalyzerState, telegram_bot, main, telegram, generator>>

\* PerfectConfig thresholds, lines 164-179 of phase1_perfect_leverage_fixed:
\* the counter _classify_and_count_signal counts a strength in
GeneratorCounter(strength) ==
    IF RGe(strength, Frac(99, 100)) THEN "godlike_count"
    ELSE IF RGe(strength, Frac(97, 100)) THEN "legendary_count"
    ELSE IF RGe(strength, Frac(94, 100)) THEN "mega_count"
    ELSE IF RGe(strength, Frac(85, 100)) THEN "ultra_count"
    ELSE "strong_count"

\* lines 124-181 of phase1_perfect_leverage_fixed: _create_perfect_signal
\* with _classify_and_count_signal, for a strength
\* max(base_strength, emergency_strength) between 0.90 and 1.0
generator_create_perfect_signal(strength) ==
    /\ generator.signal_count < MaxGenerated
    /\ generator' = [generator EXCEPT !.signal_count = @ + 1,
                                      ![GeneratorCounter(strength)] = @ + 1]
    /\ UNCHANGED <<AnalyzerState, telegram_bot, main, telegram, trading_bot>>

InitPerfect ==
    /\ price_data = EmptyDict
    /\ price_history = EmptyDict
    /\ trading_fees = InitTradingFees
    /\ min_profit_threshold = InitMinProfitThreshold
    /\ arbitrage_opportunities = <<>>
    /\ last = [op |-> "__init__"]
    /\ result = <<>>
    /\ log = <<>>
    /\ issued = {}
    /\ threads = NoCalls
    /\ telegram_bot = TelegramBotHandler
    /\ main = MainStart
    /\ telegram = <<>>
    /\ trading_bot \in {PerfectTradingBot(TRUE), PerfectTradingBot(FALSE)}
    /\ generator = PerfectSignalGenerator

NextPerfect ==
    \/ \E d \in Draws : run_perfect_cycle(d)
    \/ \E d \in Draws : on_perfect_signal_trigger(d)
    \/ shutdown
    \/ \E strength \in {Frac(90, 100), Frac(94, 100), Frac(97, 100), Frac(99, 100), R(1)} :
           generator_create_perfect_signal(strength)

SpecPerfect == InitPerfect /\ [][NextPerfect]_vars

-----------------------------------------------------------------------------
(* Claims on the counters                                                  *)

\* C29: successful_trades never exceeds trading_opportunities, and the
\* reported win_rate lies between 0 and 100.
C29_TradesWithinOpportunities ==
    /\ trading_bot.successful_trades <= trading_bot.trading_opportunities
    /\ RGe(trading_bot.win_rate, R(0))
    /\ RLe(trading_bot.win_rate, R(100))

TierSum ==
    trading_bot.godlike_signal_count + trading_bot.legendary_signal_count
        + trading_bot.mega_signal_count + trading_bot.ultra_strong_signal_count
        + trading_bot.strong_signal_count

\* C30: the five tier counts of PerfectSignalGenerator add up to its
\* signal_count, and the five tier counters of PerfectTradingBot never add
\* up to more than its signal_count.
C30_EachSignalInOneTier ==
    /\ generator.godlike_count + generator.legendary_count + generator.mega_count
           + generator.ultra_count + generator.strong_count = generator.signal_count
    /\ TierSum <= trading_bot.signal_count

====
